---- MODULE Spec2Model ----
(***************************************************************************)
(* A model of the Paygrid SDK: the status poll of PaymentIntentClient, the *)
(* payload construction of PaymentIntentSigner, the typed-data signing     *)
(* facade isSignTypedDataSupported, signing and submitting an intent, the  *)
(* amount conversion and the token permits of PermitService.               *)
(*                                                                         *)
(* JavaScript values are modelled as follows.  An optional field is a      *)
(* sequence: <<>> is undefined, <<v>> is the value v.  Numbers and BigInts *)
(* are integers.  A thrown Error is a record with its message.  Hashes are *)
(* symbolic: a hash is the sequence of tokens naming the function and its  *)
(* input, so two hashes are equal exactly when function and input are.     *)
(***************************************************************************)
EXTENDS Integers, Sequences, FiniteSets, TLC

VARIABLES
    \* ---- PaymentIntentClient.pollPaymentIntentStatus ----
    pollPc,             \* position of the poll: idle, loop, get, wait, returned, threw
    interval,           \* const interval
    maxAttempts,        \* const maxAttempts
    attempts,           \* let attempts
    lastPaymentIntent,  \* let lastPaymentIntent (NullIntent when null)
    aborted,            \* options.abortSignal.aborted
    gets,               \* number of GET /payments/{id} requests issued
    terminalSeen,       \* a response with a final status has been received
    pollResult,         \* what the poll returned or threw
    \* ---- PaymentIntentSigner.constructPaymentAuthorizationPayload ----
    now,                \* the clock, Date.now(), in milliseconds
    intent,             \* the payment intent of each call
    cpc,                \* position of each call: idle, quote, done, failed
    quoteSeen,          \* what the quote fetch of each call produced
    built,              \* what each call returned or threw
    \* ---- isSignTypedDataSupported(signer)._signTypedData ----
    signer,             \* the signer: its key and whether it has _signTypedData
    typedData,          \* the payload handed to _signTypedData
    signPc,             \* idle, signed
    signature,          \* the signature returned
    \* ---- signPaymentIntent and signAndInitiatePaymentIntent ----
    flowEntry,          \* the method called: sign or signAndInitiate
    flowPc,             \* off, idle, signing, posting, done, failed
    flowIntent,         \* the payment intent passed in
    flowSigner,         \* the signer passed in
    flowPayload,        \* the payload handed to the signer
    flowCause,          \* the error caught inside signPaymentIntent
    signOutcome,        \* what signPaymentIntent returned or threw
    constructs,         \* calls of constructPaymentAuthorizationPayload
    signRequests,       \* calls of _signTypedData
    posts,              \* POST /payments requests issued
    submitted,          \* the body of the POST
    flowResult,         \* what the method called returned or threw
    \* ---- ConfigUtils.convertAmountToDecimals ----
    convPc,             \* off, idle, done
    convIn,             \* amountInCents and decimals
    convOut,            \* the bigint returned, as its decimal digits
    \* ---- PermitService and the permit utilities ----
    permitPc,           \* off, idle, name, version, nonces, getNonce, signing, done, failed
    permitCall,         \* the method called and its arguments
    tokenContract,      \* what the token contract answers to each read
    nonceDefinition,    \* the definition of getTokenNonce in effect
    permitSigner,       \* the signer of generateTokenPermit
    ledgerReads,        \* the reads of the token contract made so far
    permitSignRequests, \* calls of _signTypedData
    permitLocals,       \* name, version, nonce and payload obtained so far
    permitResult,       \* what the method returned or threw
    \* ---- history of the payload constructions ----
    overlapped          \* two calls have been suspended at the same time

pollVars == <<pollPc, interval, maxAttempts, attempts, lastPaymentIntent, aborted,
              gets, terminalSeen, pollResult>>
payloadVars == <<now, intent, cpc, quoteSeen, built>>
signVars == <<signer, typedData, signPc, signature>>
flowVars == <<flowEntry, flowPc, flowIntent, flowSigner, flowPayload, flowCause,
              signOutcome, constructs, signRequests, posts, submitted, flowResult>>
convVars == <<convPc, convIn, convOut>>
permitVars == <<permitPc, permitCall, tokenContract, nonceDefinition, permitSigner,
                ledgerReads, permitSignRequests, permitLocals, permitResult>>
historyVars == <<overlapped>>
vars == <<pollVars, payloadVars, signVars, flowVars, convVars, permitVars, historyVars>>

(***************************************************************************)
(* JavaScript helpers                                                      *)
(***************************************************************************)
None == <<>>
Some(v) == <<v>>
IsSet(o) == o # <<>>
Val(o) == o[1]

\* A decimal string is the sequence of its digits.  n.toString() of a
\* non-negative integer, and Number(s) of such a string.
RECURSIVE NumberToString(_)
NumberToString(n) ==
    IF n < 10 THEN <<n>> ELSE NumberToString(n \div 10) \o <<n % 10>>

RECURSIVE StringToNumber(_)
StringToNumber(s) ==
    IF s = <<>> THEN 0 ELSE 10 * StringToNumber(SubSeq(s, 1, Len(s) - 1)) + s[Len(s)]

\* Math.ceil(a / b) for a >= 0 and b > 0
Ceil(a, b) == (a + b - 1) \div b

(***************************************************************************)
(* The status poll                                                         *)
(***************************************************************************)
PaymentStatus ==
    {"RELEASED_TO_GATEWAY", "PROCESSING", "SCHEDULED", "COMPLETED", "FAILED", "CANCELLED"}

FINAL_PAYMENT_STATES_NoCompleted == {"FAILED", "CANCELLED"}
FINAL_PAYMENT_STATES == {"COMPLETED", "FAILED", "CANCELLED"}

POLL_INTERVAL == 2000
MAX_RETRIES == 600

\* The caller's options: 0 stands for an option left out (0 itself is falsy too).
MaxTimeoutSteps == 3
PollIntervalChoices == {0, 1000}
TimeoutChoices == {0} \cup {k * 1500 : k \in 1..MaxTimeoutSteps}

\* blockchain_metadata.transaction.error of a response: null or a message
TxErrors == {"null", "execution reverted"}
Responses == [status : PaymentStatus, error : TxErrors]
NullIntent == [status |-> "null", error |-> "null"]

\* The part of the details string the claims speak of: the last status and
\* the transaction error, or the fixed text when there is no response yet.
formatPaymentDetails(p) ==
    IF p = NullIntent
    THEN [lastStatus |-> "No payment details available.", error |-> "null"]
    ELSE [lastStatus |-> p.status, error |-> p.error]

NoResult == [kind |-> "none", message |-> "", details |-> formatPaymentDetails(NullIntent),
             value |-> NullIntent]
Returned(p) == [kind |-> "return", message |-> "", details |-> formatPaymentDetails(NullIntent),
                value |-> p]
Thrown(msg, p) == [kind |-> "error", message |-> msg, details |-> formatPaymentDetails(p),
                   value |-> NullIntent]

\* The catch block of the loop body: an error that already carries payment
\* details is rethrown, any other is wrapped with the last known details.
RethrownMessages ==
    {"Payment failed", "Payment timeout reached", "Payment status polling was aborted"}
\* A catch block that lets every error through as it is.
CatchPollErrorUnwrapped(err, last) == err

CatchPollError(err, last) ==
    IF err.message \in RethrownMessages
    THEN err
    ELSE Thrown("Error while polling payment status", last)

AbortIgnored(signal) == FALSE
AbortRequested(signal) == signal

TimeoutReachedEarly(n, max) == n >= max - 1
TimeoutReached(n, max) == n = max

PollEnded == pollPc \in {"returned", "threw"}

pollPaymentIntentStatus(pollInterval, timeout) ==
    /\ pollPc = "idle"
    /\ interval' = (IF pollInterval # 0 THEN pollInterval ELSE POLL_INTERVAL)
    /\ maxAttempts' = (IF timeout # 0 THEN Ceil(timeout, interval') ELSE MAX_RETRIES)
    /\ attempts' = 0
    /\ lastPaymentIntent' = NullIntent
    /\ pollPc' = "loop"
    /\ UNCHANGED <<aborted, gets, terminalSeen, pollResult>>

\* The head of the while loop up to the await of getPaymentIntentById.
PollIteration ==
    /\ pollPc = "loop"
    /\ IF attempts < maxAttempts
       THEN IF AbortRequested(aborted)
            THEN /\ pollResult' = Thrown("Payment status polling was aborted", lastPaymentIntent)
                 /\ pollPc' = "threw"
                 /\ gets' = gets
            ELSE /\ gets' = gets + 1
                 /\ pollPc' = "get"
                 /\ pollResult' = pollResult
       ELSE /\ pollResult' = Thrown("Payment status polling exceeded maximum attempts",
                                    lastPaymentIntent)
            /\ pollPc' = "threw"
            /\ gets' = gets
    /\ UNCHANGED <<interval, maxAttempts, attempts, lastPaymentIntent, aborted, terminalSeen>>

\* The rest of the try block, were the attempts not counted.
GetReturnsWithoutCounting(resp) ==
    /\ pollPc = "get"
    /\ lastPaymentIntent' = resp
    /\ terminalSeen' = (terminalSeen \/ resp.status \in {"COMPLETED", "FAILED", "CANCELLED"})
    /\ attempts' = attempts
    /\ IF resp.status \in FINAL_PAYMENT_STATES
       THEN IF resp.status = "FAILED"
            THEN /\ pollResult' = CatchPollError(Thrown("Payment failed", resp), resp)
                 /\ pollPc' = "threw"
            ELSE /\ pollResult' = Returned(resp)
                 /\ pollPc' = "returned"
       ELSE /\ pollPc' = "wait"
            /\ pollResult' = pollResult
    /\ UNCHANGED <<interval, maxAttempts, aborted, gets>>

\* getPaymentIntentById resolves with a response; the rest of the try block.
GetReturns(resp) ==
    /\ pollPc = "get"
    /\ lastPaymentIntent' = resp
    /\ terminalSeen' = (terminalSeen \/ resp.status \in {"COMPLETED", "FAILED", "CANCELLED"})
    /\ IF resp.status \in FINAL_PAYMENT_STATES
       THEN /\ attempts' = attempts
            /\ IF resp.status = "FAILED"
               THEN /\ pollResult' = CatchPollError(Thrown("Payment failed", resp), resp)
                    /\ pollPc' = "threw"
               ELSE /\ pollResult' = Returned(resp)
                    /\ pollPc' = "returned"
       ELSE /\ attempts' = attempts + 1
            /\ IF TimeoutReached(attempts', maxAttempts)
               THEN /\ pollResult' = CatchPollError(Thrown("Payment timeout reached", resp), resp)
                    /\ pollPc' = "threw"
               ELSE /\ pollPc' = "wait"
                    /\ pollResult' = pollResult
    /\ UNCHANGED <<interval, maxAttempts, aborted, gets>>

\* getPaymentIntentById rejects: its catch always throws a plain Error, which
\* the catch block of the loop wraps.
GetFails ==
    /\ pollPc = "get"
    /\ pollResult' = CatchPollError(
                        Thrown("An unexpected error occurred while retrieving payment intent",
                               NullIntent),
                        lastPaymentIntent)
    /\ pollPc' = "threw"
    /\ UNCHANGED <<interval, maxAttempts, attempts, lastPaymentIntent, aborted, gets,
                   terminalSeen>>

\* The timer of the wait between two polls fires.
WaitElapsed ==
    /\ pollPc = "wait"
    /\ pollPc' = "loop"
    /\ UNCHANGED <<interval, maxAttempts, attempts, lastPaymentIntent, aborted, gets,
                   terminalSeen, pollResult>>

\* The caller triggers the abort signal, at any moment before the poll ends.
Abort ==
    /\ ~aborted
    /\ ~PollEnded
    /\ aborted' = TRUE
    /\ UNCHANGED <<pollPc, interval, maxAttempts, attempts, lastPaymentIntent, gets,
                   terminalSeen, pollResult>>

PollInit ==
    /\ pollPc = "idle"
    /\ interval = 0
    /\ maxAttempts = 0
    /\ attempts = 0
    /\ lastPaymentIntent = NullIntent
    /\ aborted = FALSE
    /\ gets = 0
    /\ terminalSeen = FALSE
    /\ pollResult = NoResult

PollNext ==
    \/ \E p \in PollIntervalChoices, t \in TimeoutChoices : pollPaymentIntentStatus(p, t)
    \/ PollIteration
    \/ \E resp \in Responses : GetReturns(resp)
    \/ GetFails
    \/ WaitElapsed
    \/ Abort

(***************************************************************************)
(* The registry: networks and tokens                                       *)
(***************************************************************************)
NetworkKeys == {"ETHEREUM", "POLYGON", "OPTIMISM", "ARBITRUM", "BASE"}
TokenSymbols == {"USDC", "USDT", "DAI"}

NETWORK_IDS ==
    [n \in NetworkKeys |->
        CASE n = "ETHEREUM" -> 1
          [] n = "POLYGON" -> 137
          [] n = "OPTIMISM" -> 10
          [] n = "ARBITRUM" -> 42161
          [] n = "BASE" -> 8453]

GRID_GATEWAY_PROXY ==
    [n \in NetworkKeys |->
        CASE n = "ETHEREUM" -> "0x0000000000000000000000000000000000000000"
          [] n = "POLYGON" -> "0x945366b290db61105B8DbD4D50B1dFDCed7a4342"
          [] n = "OPTIMISM" -> "0x4B1d5b0aF5AbAe333C8d2CCa2a346e0D5f68C427"
          [] n = "ARBITRUM" -> "0x4B1d5b0aF5AbAe333C8d2CCa2a346e0D5f68C427"
          [] n = "BASE" -> "0x93F07df792F40693fb9A31e62711aA6AFfe7efc6"]

TokenDecimals ==
    [t \in TokenSymbols |-> IF t = "DAI" THEN 18 ELSE 6]

TokenAddress ==
    [t \in TokenSymbols |-> [n \in NetworkKeys |->
        CASE t = "USDC" /\ n = "ETHEREUM" -> "0xA0b86991c6218b36c1d19D4a2e9Eb0cE3606eB48"
          [] t = "USDC" /\ n = "POLYGON" -> "0x3c499c542cef5e3811e1192ce70d8cc03d5c3359"
          [] t = "USDC" /\ n = "OPTIMISM" -> "0x0b2c639c533813f4aa9d7837caf62653d097ff85"
          [] t = "USDC" /\ n = "ARBITRUM" -> "0xaf88d065e77c8cc2239327c5edb3a432268e5831"
          [] t = "USDC" /\ n = "BASE" -> "0x833589fcd6edb6e08f4c7c32d4f71b54bda02913"
          [] t = "USDT" /\ n = "ETHEREUM" -> "0xdac17f958d2ee523a2206206994597c13d831ec7"
          [] t = "USDT" /\ n = "POLYGON" -> "0xc2132d05d31c914a87c6611c10748aeb04b58e8f"
          [] t = "USDT" /\ n = "OPTIMISM" -> "0x94b008aa00579c1307b0ef2c499ad98a8ce58e58"
          [] t = "USDT" /\ n = "ARBITRUM" -> "0xfd086bc7cd5c481dcc9c85ebe478a1c0b69fcbb9"
          [] t = "USDT" /\ n = "BASE" -> "0xfde4c96c8593536e31f229ea8f37b2ada2699bb2"
          [] t = "DAI" /\ n = "ETHEREUM" -> "0x6b175474e89094c44da98b954eedeac495271d0f"
          [] t = "DAI" /\ n = "POLYGON" -> "0x8f3cf7ad23cd3cadbd9735aff958023239c6a063"
          [] t = "DAI" /\ n = "OPTIMISM" -> "0xda10009cbd5d07dd0cecc66161fc93d7c9000da1"
          [] t = "DAI" /\ n = "ARBITRUM" -> "0xda10009cbd5d07dd0cecc66161fc93d7c9000da1"
          [] t = "DAI" /\ n = "BASE" -> "0x50c5725949a6f0c72e6c4a641f24049a917db0cb"]]

PERMIT2_ADDRESS == "0x000000000022D473030F116dDEE9F6B43aC78BA3"

\* ConfigUtils.getNetworkConfig: the fields the signer reads
getNetworkConfig(network) ==
    [key |-> network,
     chainId |-> NETWORK_IDS[network],
     gridGatewayProxy |-> GRID_GATEWAY_PROXY[network]]

\* ConfigUtils.getTokenConfig: the fields the signer reads
getTokenConfig(token, network) ==
    [address |-> TokenAddress[token][network],
     decimals |-> TokenDecimals[token]]

\* The first registry lookup of constructPaymentAuthorizationPayload that
\* throws, as its message, or "" when all four succeed.
LookupError(i) ==
    IF i.source.network_id \notin NetworkKeys THEN "Network not configured"
    ELSE IF i.source.payment_token \notin TokenSymbols THEN "Token not configured"
    ELSE IF i.destination.network_id \notin NetworkKeys THEN "Network not configured"
    ELSE IF i.destination.payment_token \notin TokenSymbols THEN "Token not configured"
    ELSE ""

\* ethers.utils.getAddress: the canonical (checksummed) form of an address
getAddress(a) == <<"getAddress", a>>

(***************************************************************************)
(* Amounts and the fee split                                               *)
(***************************************************************************)
RECURSIVE Pow10(_)
Pow10(n) == IF n = 0 THEN 1 ELSE 10 * Pow10(n - 1)

GATEWAY_FEE_BPS == 10
BPS_DENOMINATOR == 10000

\* ConfigUtils.convertAmountToDecimals: cents / 100 written as a decimal
\* string and parsed with `decimals` fractional digits.  The quotient of a
\* whole number of cents by 100 prints as its exact decimal expansion.
\* (amountInCents / 100).toString(): the whole part and the fraction, which
\* has no trailing zero (none, one or two digits).
BaseUnitsToString(amountInCents) ==
    LET cents == amountInCents % 100
    IN  [whole |-> NumberToString(amountInCents \div 100),
         fraction |-> IF cents = 0 THEN <<>>
                      ELSE IF cents % 10 = 0 THEN <<cents \div 10>>
                      ELSE <<cents \div 10, cents % 10>>]

Zeros(n) == [k \in 1..n |-> 0]

RECURSIVE StripLeadingZeros(_)
StripLeadingZeros(digits) ==
    IF Len(digits) > 1 /\ digits[1] = 0 THEN StripLeadingZeros(Tail(digits)) ELSE digits

\* ethers.utils.parseUnits(value, decimals): the fraction is padded with
\* zeros to `decimals` digits and the result is whole * 10^decimals +
\* fraction, here as the decimal digits of that integer.
parseUnitsUnpadded(value, decimals) ==
    StripLeadingZeros(value.whole \o value.fraction)
parseUnits(value, decimals) ==
    StripLeadingZeros(value.whole \o value.fraction
                      \o Zeros(decimals - Len(value.fraction)))

\* ConfigUtils.convertAmountToDecimals, as the digits of the bigint and as
\* the integer itself
ConvertedDigits(amountInCents, decimals) ==
    parseUnits(BaseUnitsToString(amountInCents), decimals)
convertAmountToDecimals(amountInCents, decimals) ==
    StringToNumber(ConvertedDigits(amountInCents, decimals))

\* The corridor fee of a quote is a decimal number of token units; the model
\* counts it in millionths.  BigInt(Math.floor((cents / 100 + fee) * 10^decimals))
\* is computed in double precision: when the exact product is a whole number
\* the computed product is that number or falls just short of it, and the
\* floor is then one less (slip = 1).  Which of the two is a function of
\* the operands.
AdjustedAmount(amountInCents, feeMicros, decimals, slip) ==
    LET exact == amountInCents * Pow10(decimals - 2) + feeMicros * Pow10(decimals - 6)
    IN  IF exact > 0 THEN exact - slip ELSE exact

OperatorFeeRoundedUp(amount, bps) == (amount * bps + BPS_DENOMINATOR - 1) \div BPS_DENOMINATOR
OperatorFee(amount, bps) == (amount * bps) \div BPS_DENOMINATOR

GatewayFee(amount) == (amount * GATEWAY_FEE_BPS) \div BPS_DENOMINATOR

PayeeAmount(amount, operatorFee, gatewayFee) == amount - operatorFee - gatewayFee

\* a || b on numbers: a unless it is falsy (0)
OrElse(a, b) == IF a # 0 THEN a ELSE b

\* operator_data.fee_bps || 0
FeeBps(i) == IF IsSet(i.operator_data.fee_bps) THEN Val(i.operator_data.fee_bps) ELSE 0

(***************************************************************************)
(* constructPaymentAuthorizationPayload                                    *)
(***************************************************************************)
Calls == {1, 2}

\* The clock: Date.now() in milliseconds, advancing in steps of 500 ms.
MaxTicks == 3
ClockValues == {1000 + 500 * k : k \in 0..MaxTicks}
Seconds(ms) == ms \div 1000

\* What CorridorQuotesService.getEffectiveQuote and the checks on its result
\* can meet: the request fails, the response is empty, it has no
\* corridor_quotes or an empty list, the first quote has no (or a zero)
\* estimated_total_fees, or the first quote has a fee.
MaxFeeMicros == 3
\* A fee carries `short`: 1 when, for that fee, the double-precision product
\* of adjustAmountWithCorridorFees falls just short of the exact whole number.
QuoteFailures ==
    {[kind |-> k, fee |-> 0, short |-> 0] :
        k \in {"request error", "empty", "no quotes", "no fee"}}
QuoteOutcomes ==
    QuoteFailures \cup
    {[kind |-> "fee", fee |-> f, short |-> d] : f \in 1..MaxFeeMicros, d \in {0, 1}}
NoQuote == [kind |-> "not requested", fee |-> 0, short |-> 0]

\* quoteId && chargeBearer === ChargeBearer.PAYER
QuoteRequested(i) ==
    /\ IsSet(i.processing_fees)
    /\ IsSet(Val(i.processing_fees).quoteId)
    /\ Val(i.processing_fees).charge_bearer = "PAYER"

SourceDecimals(i) == getTokenConfig(i.source.payment_token, i.source.network_id).decimals

\* adjustAmountWithCorridorFees, given what the quote fetch met: the amount
\* it resolves with, or the error it rejects with.
adjustAmountRethrowing(i, q) ==
    IF QuoteRequested(i) /\ q.kind # "fee"
    THEN [error |-> "Effective quote request failed", amount |-> 0]
    ELSE IF QuoteRequested(i)
    THEN [error |-> "", amount |-> AdjustedAmount(i.amount, q.fee, SourceDecimals(i), q.short)]
    ELSE [error |-> "", amount |-> convertAmountToDecimals(i.amount, SourceDecimals(i))]
adjustAmountWithCorridorFees(i, q) ==
    IF QuoteRequested(i)
    THEN IF q.kind = "fee"
         THEN [error |-> "",
               amount |-> AdjustedAmount(i.amount, q.fee, SourceDecimals(i), q.short)]
         ELSE \* catch: fall back to the original amount
              [error |-> "",
               amount |-> convertAmountToDecimals(i.amount, SourceDecimals(i))]
    ELSE [error |-> "", amount |-> convertAmountToDecimals(i.amount, SourceDecimals(i))]

\* GridPaymentType of payment_type: ONE_TIME = 0, RECURRING = 1, ONE_TIME
\* for any other value
GridPaymentType(paymentType) == IF paymentType = "recurring" THEN 1 ELSE 0

\* The type schema SignatureTransfer.getPermitData returns for a batch
\* permit with the PaymentIntent witness.
PermitBatchWitnessTypes ==
    [PermitBatchWitnessTransferFrom |->
        << <<"permitted", "TokenPermissions[]">>, <<"spender", "address">>,
           <<"nonce", "uint256">>, <<"deadline", "uint256">>,
           <<"witness", "PaymentIntent">> >>,
     TokenPermissions |-> << <<"token", "address">>, <<"amount", "uint256">> >>,
     PaymentIntent |->
        << <<"payment_type", "uint8">>, <<"operator_data", "OperatorData">>,
           <<"amount", "uint256">>, <<"source", "Domain">>, <<"destination", "Domain">>,
           <<"processing_date", "uint256">>, <<"expires_at", "uint256">> >>,
     OperatorData |->
        << <<"operatorId", "bytes32">>, <<"operator", "address">>,
           <<"treasury_account", "address">>, <<"fee", "uint256">> >>,
     Domain |->
        << <<"account", "address">>, <<"network_id", "uint256">>,
           <<"payment_token", "address">> >>]

\* A default nonce that counts down with the clock.
PermitNonceDescending(i, t) == OrElse(Val(i.nonce), 100000 - t)

\* BigInt(nonce) || BigInt(Date.now())
PermitNonce(i, t) == OrElse(Val(i.nonce), t)

\* BigInt(expiration_date) || BigInt(Math.floor(Date.now() / 1000) + 3600)
PermitDeadline(i, t) == OrElse(Val(i.expiration_date), Seconds(t) + 3600)

\* BigInt(processing_date || (Math.floor(Date.now() / 1000) + 18000))
WitnessProcessingDateFromClock(i, t) == Seconds(t) + 18000
WitnessProcessingDate(i, t) ==
    IF IsSet(i.processing_date) /\ Val(i.processing_date) # 0
    THEN Val(i.processing_date)
    ELSE Seconds(t) + 18000

\* BigInt(expiration_date || (Math.floor(Date.now() / 1000) + 3600))
WitnessExpiresAt(i, t) ==
    IF IsSet(i.expiration_date) /\ Val(i.expiration_date) # 0
    THEN Val(i.expiration_date)
    ELSE Seconds(t) + 3600

\* The statements after the amount is known that can throw: the amount
\* check, then BigInt(undefined) for the nonce and for the deadline.
FinishError(i, amount) ==
    LET operatorFee == OperatorFee(amount, FeeBps(i))
        gatewayFee == GatewayFee(amount)
        payeeAmount == PayeeAmount(amount, operatorFee, gatewayFee)
    IN  IF payeeAmount + operatorFee + gatewayFee # amount
        THEN "Amount mismatch"
        ELSE IF ~IsSet(i.nonce) \/ ~IsSet(i.expiration_date)
        THEN "TypeError: Cannot convert undefined to a BigInt"
        ELSE ""

\* const permitted: the three transfers the signature permits
PermittedTransfersFeesFirst(token, payeeAmount, operatorFee, gatewayFee) ==
    << [token |-> token, amount |-> operatorFee],
       [token |-> token, amount |-> gatewayFee],
       [token |-> token, amount |-> payeeAmount] >>
PermittedTransfers(token, payeeAmount, operatorFee, gatewayFee) ==
    << [token |-> token, amount |-> payeeAmount],
       [token |-> token, amount |-> operatorFee],
       [token |-> token, amount |-> gatewayFee] >>

\* The domain SignatureTransfer.getPermitData builds from the Permit2
\* address and the chain id it is given
permit2DomainWithVersion(permit2Address, chainId) ==
    [name |-> "Permit2", version |-> "1", chainId |-> chainId,
     verifyingContract |-> permit2Address]
permit2Domain(permit2Address, chainId) ==
    [name |-> "Permit2", chainId |-> chainId, verifyingContract |-> permit2Address]

\* The payload returned, for the gross amount and the four readings t[1..4]
\* of the clock (nonce, deadline, processing_date, expires_at).
PayloadOf(i, amount, t) ==
    LET sourceNetwork == getNetworkConfig(i.source.network_id)
        sourceTokenConfig == getTokenConfig(i.source.payment_token, i.source.network_id)
        destinationNetwork == getNetworkConfig(i.destination.network_id)
        destinationTokenConfig ==
            getTokenConfig(i.destination.payment_token, i.destination.network_id)
        operatorFee == OperatorFee(amount, FeeBps(i))
        gatewayFee == GatewayFee(amount)
        payeeAmount == PayeeAmount(amount, operatorFee, gatewayFee)
    IN  [domain |-> permit2Domain(PERMIT2_ADDRESS, sourceNetwork.chainId),
         types |-> PermitBatchWitnessTypes,
         values |->
            [permitted |-> PermittedTransfers(sourceTokenConfig.address,
                                              payeeAmount, operatorFee, gatewayFee),
             spender |-> sourceNetwork.gridGatewayProxy,
             nonce |-> PermitNonce(i, t[1]),
             deadline |-> PermitDeadline(i, t[2]),
             witness |->
                [payment_type |-> GridPaymentType(i.payment_type),
                 operator_data |->
                    [operatorId |-> IF IsSet(i.operator_data.id)
                                    THEN i.operator_data.id
                                    ELSE <<"id", i.operator_data.operator>>,
                     operator |-> getAddress(i.operator_data.operator),
                     treasury_account |-> getAddress(i.operator_data.treasury),
                     fee |-> FeeBps(i)],
                 amount |-> amount,
                 source |-> [account |-> getAddress(i.source.from_account),
                             network_id |-> sourceNetwork.chainId,
                             payment_token |-> getAddress(sourceTokenConfig.address)],
                 destination |-> [account |-> getAddress(i.destination.to_account),
                                  network_id |-> destinationNetwork.chainId,
                                  payment_token |-> getAddress(destinationTokenConfig.address)],
                 processing_date |-> WitnessProcessingDate(i, t[3]),
                 expires_at |-> WitnessExpiresAt(i, t[4])]]]

\* What a call produced; `at` is the clock reading when the call ended.
NotBuilt == [kind |-> "none", error |-> "", payload |-> None, at |-> 0]
BuildFailed(msg, at) == [kind |-> "error", error |-> msg, payload |-> None, at |-> at]
Built(p, at) == [kind |-> "payload", error |-> "", payload |-> Some(p), at |-> at]
CallEnded(c) == cpc[c] \in {"done", "failed"}

\* The clock readings of the synchronous tail of the call: the clock may
\* advance once among them; the readings after position k see the later time.
ClockReads(k) == [j \in 1..4 |-> IF j > k THEN now + 500 ELSE now]

\* The tail of the call, were the intent kept in a field that all the calls
\* of the signer share: the tail then works on the intent stored last.
FinishOnSharedIntent(c, adjusted, k) ==
    /\ k < 4 => now + 500 \in ClockValues
    /\ now' = (IF k < 4 THEN now + 500 ELSE now)
    /\ IF adjusted.error # ""
       THEN /\ built' = [built EXCEPT ![c] = BuildFailed(adjusted.error, now')]
            /\ cpc' = [cpc EXCEPT ![c] = "failed"]
       ELSE IF LookupError(intent[2]) # ""
       THEN /\ built' = [built EXCEPT ![c] = BuildFailed(LookupError(intent[2]), now')]
            /\ cpc' = [cpc EXCEPT ![c] = "failed"]
       ELSE /\ built' = [built EXCEPT ![c] =
                            Built(PayloadOf(intent[2], adjusted.amount, ClockReads(k)), now')]
            /\ cpc' = [cpc EXCEPT ![c] = "done"]

\* From the resolved amount to the return (or the throw) of the call.
Finish(c, adjusted, k) ==
    /\ k < 4 => now + 500 \in ClockValues
    /\ now' = (IF k < 4 THEN now + 500 ELSE now)
    /\ IF adjusted.error # ""
       THEN /\ built' = [built EXCEPT ![c] = BuildFailed(adjusted.error, now')]
            /\ cpc' = [cpc EXCEPT ![c] = "failed"]
       ELSE IF FinishError(intent[c], adjusted.amount) # ""
       THEN /\ built' = [built EXCEPT ![c] =
                            BuildFailed(FinishError(intent[c], adjusted.amount), now')]
            /\ cpc' = [cpc EXCEPT ![c] = "failed"]
       ELSE /\ built' = [built EXCEPT ![c] =
                            Built(PayloadOf(intent[c], adjusted.amount, ClockReads(k)), now')]
            /\ cpc' = [cpc EXCEPT ![c] = "done"]

\* The call up to its first suspension: the registry lookups, then either the
\* quote request is sent or, with no quote to fetch, the call runs to its end.
BeginConstruct(c) ==
    /\ cpc[c] = "idle"
    /\ IF LookupError(intent[c]) # ""
       THEN /\ built' = [built EXCEPT ![c] = BuildFailed(LookupError(intent[c]), now)]
            /\ cpc' = [cpc EXCEPT ![c] = "failed"]
            /\ UNCHANGED <<now, quoteSeen>>
       ELSE IF QuoteRequested(intent[c])
       THEN /\ cpc' = [cpc EXCEPT ![c] = "quote"]
            /\ UNCHANGED <<now, quoteSeen, built>>
       ELSE /\ \E k \in 0..4 :
                  Finish(c, adjustAmountWithCorridorFees(intent[c], NoQuote), k)
            /\ UNCHANGED quoteSeen
    /\ UNCHANGED intent

\* The quote fetch settles and the call runs to its end.
QuoteSettles(c, q) ==
    /\ cpc[c] = "quote"
    /\ quoteSeen' = [quoteSeen EXCEPT ![c] = q]
    /\ \E k \in 0..4 : Finish(c, adjustAmountWithCorridorFees(intent[c], q), k)
    /\ UNCHANGED intent

Tick ==
    /\ now + 500 \in ClockValues
    /\ now' = now + 500
    /\ UNCHANGED <<intent, cpc, quoteSeen, built>>

(***************************************************************************)
(* The intents the specifications draw from                                *)
(***************************************************************************)
MaxCents == 2

BaseIntent ==
    [payment_type |-> "one-time",
     operator_data |->
        [id |-> Some("0x1234567890123456789012345678901234567890123456789012345678901234"),
         operator |-> "0x1234567890123456789012345678901234567890",
         treasury |-> "0x2234567890123456789012345678901234567890",
         fee_bps |-> Some(50)],
     amount |-> 1,
     source |-> [from_account |-> "0x3234567890123456789012345678901234567890",
                 network_id |-> "BASE", payment_token |-> "USDC"],
     destination |-> [to_account |-> "0x4234567890123456789012345678901234567890",
                      network_id |-> "POLYGON", payment_token |-> "USDC"],
     processing_date |-> Some(8000),
     expiration_date |-> Some(9000),
     nonce |-> Some(7),
     processing_fees |-> None]

ProcessingFeesChoices ==
    {None,
     Some([charge_bearer |-> "PAYER", quoteId |-> Some("quote-1")]),
     Some([charge_bearer |-> "PAYER", quoteId |-> None]),
     Some([charge_bearer |-> "OPERATOR", quoteId |-> Some("quote-1")])}
NonceChoices == {None, Some(0), Some(7)}
ExpirationChoices == {None, Some(0), Some(9000)}
ProcessingDateChoices == {None, Some(0), Some(8000)}
BpsChoices == {0, 1, 7, 50, 333, 1000, 9989, 9990, 9999, 10000}

\* Intents that vary the nonce, the dates and the quote request.
PayloadIntents ==
    {[BaseIntent EXCEPT !.amount = a, !.nonce = n, !.expiration_date = e,
                        !.processing_date = d, !.processing_fees = f,
                        !.operator_data.fee_bps = b] :
        a \in 0..MaxCents, n \in NonceChoices, e \in ExpirationChoices,
        d \in ProcessingDateChoices, f \in ProcessingFeesChoices,
        b \in {None, Some(50)}}

\* Intents that vary the amount and the operator's fee rate.
FeeIntents ==
    {[BaseIntent EXCEPT !.amount = a, !.processing_fees = f,
                        !.operator_data.fee_bps = b] :
        a \in 0..MaxCents,
        f \in {None, Some([charge_bearer |-> "PAYER", quoteId |-> Some("quote-1")])},
        b \in {None} \cup {Some(r) : r \in BpsChoices}}

\* Intents for two calls on the same intent.
RepeatedIntents ==
    {[BaseIntent EXCEPT !.nonce = n, !.expiration_date = e,
                        !.processing_date = d, !.processing_fees = f] :
        n \in NonceChoices, e \in ExpirationChoices, d \in ProcessingDateChoices,
        f \in {None, Some([charge_bearer |-> "PAYER", quoteId |-> Some("quote-1")])}}

\* Intents that vary the source and destination networks and tokens.  An
\* 18-decimals source carries the amount 0 and requests no quote: its other
\* amounts exceed the integers of the model.
RegistrySources ==
    {x \in TokenSymbols \X (0..MaxCents) \X
            {None, Some([charge_bearer |-> "PAYER", quoteId |-> Some("quote-1")])} :
        TokenDecimals[x[1]] = 6 \/ (x[2] = 0 /\ x[3] = None)}
RegistryIntents ==
    {[BaseIntent EXCEPT !.source.network_id = sn, !.source.payment_token = x[1],
                        !.destination.network_id = dn, !.destination.payment_token = dt,
                        !.amount = x[2], !.processing_fees = x[3],
                        !.operator_data.fee_bps = Some(b)] :
        sn \in NetworkKeys, dn \in NetworkKeys, dt \in {"USDC", "DAI"},
        x \in RegistrySources, b \in {50, 333}}

\* Intents for two calls on independent intents: they vary the amount, the
\* quote request and the source network, which may be an unsupported one.
IndependentIntents ==
    {[BaseIntent EXCEPT !.amount = a, !.processing_fees = f, !.source.network_id = n] :
        a \in 1..MaxCents,
        f \in {None, Some([charge_bearer |-> "PAYER", quoteId |-> Some("quote-1")])},
        n \in {"BASE", "SOLANA"}}

PayloadIdle ==
    /\ now = 1000
    /\ intent = [c \in Calls |-> BaseIntent]
    /\ cpc = [c \in Calls |-> "off"]
    /\ quoteSeen = [c \in Calls |-> NoQuote]
    /\ built = [c \in Calls |-> NotBuilt]

\* One call, on an intent of the given set.
OneCallInit(intents) ==
    /\ now = 1000
    /\ \E i \in intents : intent = [c \in Calls |-> i]
    /\ cpc = [c \in Calls |-> IF c = 1 THEN "idle" ELSE "off"]
    /\ quoteSeen = [c \in Calls |-> NoQuote]
    /\ built = [c \in Calls |-> NotBuilt]

\* Two calls on the same intent.
TwoCallInit(intents) ==
    /\ now = 1000
    /\ \E i \in intents : intent = [c \in Calls |-> i]
    /\ cpc = [c \in Calls |-> "idle"]
    /\ quoteSeen = [c \in Calls |-> NoQuote]
    /\ built = [c \in Calls |-> NotBuilt]

\* Two calls, each on an intent of its own.
ConcurrentInit(intents) ==
    /\ now = 1000
    /\ intent \in [Calls -> intents]
    /\ cpc = [c \in Calls |-> "idle"]
    /\ quoteSeen = [c \in Calls |-> NoQuote]
    /\ built = [c \in Calls |-> NotBuilt]

PayloadNext ==
    \/ \E c \in Calls : BeginConstruct(c)
    \/ \E c \in Calls, q \in QuoteOutcomes : QuoteSettles(c, q)
    \/ Tick

(***************************************************************************)
(* The signing facade                                                      *)
(***************************************************************************)
\* Byte strings are sequences of tokens; a hash is the tagged, delimited
\* sequence of its input, so equal hashes have equal inputs.
keccak256(bytes) == <<"keccak256(">> \o bytes \o <<")">>

RECURSIVE EncodeFields(_)
EncodeFields(fields) ==
    IF fields = <<>> THEN <<>>
    ELSE <<fields[1][2], fields[1][1]>> \o EncodeFields(Tail(fields))

\* The bytes of the values of a batch-witness payload, field by field.
EncodeData(v) ==
    LET w == v.witness
    IN  <<v.permitted[1].token, ToString(v.permitted[1].amount),
          v.permitted[2].token, ToString(v.permitted[2].amount),
          v.permitted[3].token, ToString(v.permitted[3].amount),
          v.spender, ToString(v.nonce), ToString(v.deadline),
          ToString(w.payment_type)>>
        \o w.operator_data.operatorId \o w.operator_data.operator
        \o w.operator_data.treasury_account
        \o <<ToString(w.operator_data.fee), ToString(w.amount)>>
        \o w.source.account \o <<ToString(w.source.network_id)>> \o w.source.payment_token
        \o w.destination.account \o <<ToString(w.destination.network_id)>>
        \o w.destination.payment_token
        \o <<ToString(w.processing_date), ToString(w.expires_at)>>

\* ethers.utils._TypedDataEncoder.hashDomain
hashDomain(domain) ==
    keccak256(<<"EIP712Domain", domain.name, ToString(domain.chainId),
                domain.verifyingContract>>)

\* _TypedDataEncoder.from(types).hash(value): the struct hash
hashStruct(types, values) ==
    keccak256(EncodeFields(types.PermitBatchWitnessTransferFrom) \o EncodeData(values))

\* ethers.utils._TypedDataEncoder.hash: the complete EIP-712 digest,
\* keccak256(0x1901 || hashDomain(domain) || struct hash)
TypedDataEncoder_hash(domain, types, values) ==
    keccak256(<<"0x1901">> \o hashDomain(domain) \o hashStruct(types, values))

\* The signing key applied to a 32-byte digest
signDigest(key, digest) == <<"signature", key>> \o digest

\* Signer.signMessage: signs the EIP-191 hash of the message,
\* keccak256("\x19Ethereum Signed Message:\n" || length || message)
signMessage(key, message) ==
    signDigest(key, keccak256(<<"\\x19Ethereum Signed Message:\\n", "32">> \o message))

\* The signer's own _signTypedData
NativeSignTypedData(key, domain, types, values) ==
    signDigest(key, TypedDataEncoder_hash(domain, types, values))

\* The _signTypedData that isSignTypedDataSupported synthesizes
FallbackSignTypedData(key, domain, types, values) ==
    LET domainSeparator == hashDomain(domain)
        hashStructValue == TypedDataEncoder_hash(domain, types, values)
        digest == keccak256(<<"0x1901">> \o domainSeparator \o hashStructValue)
    IN  signMessage(key, digest)

\* isSignTypedDataSupported(signer)._signTypedData(domain, types, values)
SignTypedData(s, domain, types, values) ==
    IF s.native
    THEN NativeSignTypedData(s.key, domain, types, values)
    ELSE FallbackSignTypedData(s.key, domain, types, values)

MaxSignNonce == 2
SignerKeys == {"key-1", "key-2", "key-3"}
Signers == [key : SignerKeys, native : BOOLEAN]
SignPayloads ==
    {PayloadOf([BaseIntent EXCEPT !.source.network_id = n, !.nonce = Some(k)],
               10000, [j \in 1..4 |-> 1000]) :
        n \in NetworkKeys, k \in 1..MaxSignNonce}

SignIdle ==
    /\ signer = [key |-> "key-1", native |-> TRUE]
    /\ typedData = [domain |-> <<>>, types |-> <<>>, values |-> <<>>]
    /\ signPc = "off"
    /\ signature = <<>>

SignInit ==
    /\ signer \in Signers
    /\ typedData \in SignPayloads
    /\ signPc = "idle"
    /\ signature = <<>>

Sign ==
    /\ signPc = "idle"
    /\ signature' = SignTypedData(signer, typedData.domain, typedData.types, typedData.values)
    /\ signPc' = "signed"
    /\ UNCHANGED <<signer, typedData>>

(***************************************************************************)
(* signPaymentIntent and signAndInitiatePaymentIntent                      *)
(***************************************************************************)
\* A message is a sequence of pieces.  `${error}` is the error's name and
\* message; the model keeps the name of a TypeError inside its message.
TypeErrors ==
    {"TypeError: Cannot convert undefined to a BigInt",
     "TypeError: Cannot read properties of undefined (reading 'network_id')",
     "TypeError: Cannot read properties of undefined (reading 'permit2_permit')"}
ErrorToString(msg) == IF msg \in TypeErrors THEN <<msg>> ELSE <<"Error: ", msg>>

\* error.message.includes('permit2')
MentionsPermit2 ==
    {"TypeError: Cannot read properties of undefined (reading 'permit2_permit')",
     "Validation errors: authorizations.permit2_permit.signature: invalid signature"}
IncludesPermit2(message) == \E k \in 1..Len(message) : message[k] \in MentionsPermit2

\* The intents handed to the two methods: the source may be missing, and
\* signAndInitiatePaymentIntent accepts an intent without authorizations.
\* The field authorizations holds authorizations.permit2_permit and the
\* field initial_permit holds authorizations.initial_permit.
NoAuthorization == [signature |-> <<>>, nonce |-> <<>>, deadline |-> <<>>]
FlowIntentOf(i, source, authorizations) ==
    [payment_type |-> i.payment_type, operator_data |-> i.operator_data,
     amount |-> i.amount, source |-> source, destination |-> i.destination,
     processing_date |-> i.processing_date, expiration_date |-> i.expiration_date,
     authorizations |-> authorizations, initial_permit |-> None,
     processing_fees |-> i.processing_fees]

\* The same intent as constructPaymentAuthorizationPayload reads it once
\* source and authorizations are known to be present.
AsPaymentIntent(fi) ==
    [payment_type |-> fi.payment_type, operator_data |-> fi.operator_data,
     amount |-> fi.amount, source |-> Val(fi.source), destination |-> fi.destination,
     processing_date |-> fi.processing_date, expiration_date |-> fi.expiration_date,
     nonce |-> IF IsSet(fi.authorizations) THEN Val(fi.authorizations).nonce ELSE None,
     processing_fees |-> fi.processing_fees]

\* constructPaymentAuthorizationPayload as signPaymentIntent awaits it: the
\* error it rejects with, or the payload, for the quote outcome q and the
\* clock reading t.
ConstructOutcome(fi, q, t) ==
    IF ~IsSet(fi.source)
    THEN [error |-> "TypeError: Cannot read properties of undefined (reading 'network_id')",
          payload |-> None]
    ELSE LET i == AsPaymentIntent(fi)
         IN  IF LookupError(i) # ""
             THEN [error |-> LookupError(i), payload |-> None]
             ELSE LET adjusted == adjustAmountWithCorridorFees(i, q)
                  IN  IF adjusted.error # ""
                      THEN [error |-> adjusted.error, payload |-> None]
                      ELSE IF FinishError(i, adjusted.amount) = "Amount mismatch"
                      THEN [error |-> "Amount mismatch", payload |-> None]
                      ELSE IF ~IsSet(fi.authorizations)
                      THEN [error |-> "TypeError: Cannot read properties of undefined (reading 'permit2_permit')",
                            payload |-> None]
                      ELSE IF FinishError(i, adjusted.amount) # ""
                      THEN [error |-> FinishError(i, adjusted.amount), payload |-> None]
                      ELSE [error |-> "",
                            payload |-> Some(PayloadOf(i, adjusted.amount,
                                                       [j \in 1..4 |-> t]))]

\* What the signer does with a signing request.
SignerBehaviours == {"signs", "user rejected signing", "missing provider"}

\* catch (error) { throw new Error(`Failed to sign payment intent: ${error}`) }
RethrowSignError(cause) == ErrorToString(cause)
WrapSignError(cause) == <<"Failed to sign payment intent: ">> \o ErrorToString(cause)

\* The authorization signPaymentIntent returns
AuthorizationWithoutStrings(sig, values) ==
    [signature |-> sig, nonce |-> <<values.nonce>>, deadline |-> <<values.deadline>>]
AuthorizationOf(sig, values) ==
    [signature |-> sig,
     nonce |-> NumberToString(values.nonce),
     deadline |-> NumberToString(values.deadline)]

NoOutcome == [kind |-> "none", message |-> <<>>, authorization |-> None]
SignThrew(message) == [kind |-> "error", message |-> message, authorization |-> None]
SignReturned(a) == [kind |-> "return", message |-> <<>>, authorization |-> Some(a)]

\* signedPaymentIntent: the intent with permit2_permit replaced by the
\* signer's authorization
\* signer's authorization, the caller's initial_permit kept when there is one
KeepCallerAuthorization(fi, a) == fi
SignedPaymentIntentWithoutInitialPermit(fi, a) ==
    [fi EXCEPT !.authorizations = Some(a), !.initial_permit = None]
SignedPaymentIntent(fi, a) ==
    [fi EXCEPT !.authorizations = Some(a),
               !.initial_permit = IF IsSet(fi.initial_permit) THEN fi.initial_permit ELSE None]

\* A nonce or deadline of an authorization is a string, a bigint or a number:
\* a record of its type with the digits of a string or the integer of a
\* bigint or number.
JsString(digits) == [type |-> "string", digits |-> digits, number |-> 0]
JsBigInt(n) == [type |-> "bigint", digits |-> <<>>, number |-> n]
JsNumber(n) == [type |-> "number", digits |-> <<>>, number |-> n]
\* v.toString() and Number(v)
toString(v) == IF v.type = "string" THEN v.digits ELSE NumberToString(v.number)
Number(v) == IF v.type = "string" THEN StringToNumber(v.digits) ELSE v.number

\* Number(date) || Number(Math.floor(Date.now() / 1000) + buffer), the clock
\* reading t: an absent date gives NaN, which is falsy like 0
SubmittedDate(date, t, buffer) ==
    OrElse(IF IsSet(date) THEN Val(date) ELSE 0, Seconds(t) + buffer)

\* formatPaymentIntentForSubmission at the clock reading t: the fields of
\* the request body that come from the amount, the dates and the
\* authorizations
formatPaymentIntentForSubmission(i, t) ==
    [amount |-> i.amount,
     source |-> Val(i.source),
     processing_date |-> SubmittedDate(i.processing_date, t, 18000),
     expiration_date |-> SubmittedDate(i.expiration_date, t, 3600),
     permit2_permit |->
        [signature |-> Val(i.authorizations).signature,
         nonce |-> Val(i.authorizations).nonce,
         deadline |-> StringToNumber(Val(i.authorizations).deadline)],
     initial_permit |->
        IF IsSet(i.initial_permit)
        THEN Some([signature |-> Val(i.initial_permit).signature,
                   nonce |-> toString(Val(i.initial_permit).nonce),
                   deadline |-> Number(Val(i.initial_permit).deadline)])
        ELSE None]

ApiErrors ==
    {"Unknown API error",
     "Validation errors: authorizations.permit2_permit.signature: invalid signature"}
PostResponses == [status : {"SCHEDULED", "PROCESSING"}]

FlowPending == [kind |-> "none", message |-> <<>>]
FlowReturned == [kind |-> "return", message |-> <<>>]
FlowThrew(message) == [kind |-> "error", message |-> message]

\* The catch of signAndInitiatePaymentIntent: what the caller receives
CatchSignAndInitiate(message) ==
    IF IncludesPermit2(message)
    THEN <<"Payment intent signing failed: ">> \o message
    ELSE message

\* signPaymentIntent has settled with `outcome`.  Called directly, the
\* method ends there; inside signAndInitiatePaymentIntent the signed intent
\* is formatted and posted, or the error goes through the catch.
AfterSign(outcome) ==
    /\ signOutcome' = outcome
    /\ IF flowEntry = "sign"
       THEN /\ flowPc' = (IF outcome.kind = "return" THEN "done" ELSE "failed")
            /\ flowResult' = (IF outcome.kind = "return"
                              THEN FlowReturned
                              ELSE FlowThrew(outcome.message))
            /\ UNCHANGED <<posts, submitted>>
       ELSE IF outcome.kind = "return"
       THEN /\ flowPc' = "posting"
            /\ posts' = posts + 1
            /\ submitted' = Some(formatPaymentIntentForSubmission(
                                SignedPaymentIntent(flowIntent, Val(outcome.authorization)),
                                now))
            /\ UNCHANGED flowResult
       ELSE /\ flowPc' = "failed"
            /\ flowResult' = FlowThrew(CatchSignAndInitiate(outcome.message))
            /\ UNCHANGED <<posts, submitted>>

\* signPaymentIntent up to the signing request: the payload is constructed
\* (q is what the quote fetch met) and handed to _signTypedData, or the
\* construction throws and the catch wraps the error.
signPaymentIntent(q) ==
    /\ flowPc = "idle"
    /\ constructs' = constructs + 1
    /\ LET c == ConstructOutcome(flowIntent, q, now)
       IN  IF c.error # ""
           THEN /\ flowCause' = c.error
                /\ AfterSign(SignThrew(WrapSignError(c.error)))
                /\ UNCHANGED <<flowPayload, signRequests>>
           ELSE /\ flowPayload' = c.payload
                /\ signRequests' = signRequests + 1
                /\ flowPc' = "signing"
                /\ UNCHANGED <<flowCause, signOutcome, posts, submitted, flowResult>>
    /\ UNCHANGED <<flowEntry, flowIntent, flowSigner>>

\* The signer answers the request: a signature, or an error.
SignerAnswers(answer) ==
    /\ flowPc = "signing"
    /\ IF answer = "signs"
       THEN LET p == Val(flowPayload)
            IN  /\ AfterSign(SignReturned(AuthorizationOf(
                        SignTypedData(flowSigner, p.domain, p.types, p.values), p.values)))
                /\ UNCHANGED flowCause
       ELSE /\ flowCause' = answer
            /\ AfterSign(SignThrew(WrapSignError(answer)))
    /\ UNCHANGED <<flowEntry, flowIntent, flowSigner, flowPayload, constructs, signRequests>>

\* initiatePaymentIntent: the POST resolves
PostReturns(resp) ==
    /\ flowPc = "posting"
    /\ flowPc' = "done"
    /\ flowResult' = FlowReturned
    /\ UNCHANGED <<flowEntry, flowIntent, flowSigner, flowPayload, flowCause, signOutcome,
                   constructs, signRequests, posts, submitted>>

\* initiatePaymentIntent: the POST rejects; the error is reworded and goes
\* through the catch of signAndInitiatePaymentIntent.
PostFails(apiError) ==
    /\ flowPc = "posting"
    /\ flowPc' = "failed"
    /\ flowResult' = FlowThrew(CatchSignAndInitiate(
            <<"An unexpected error occurred during payment intent initiation: ",
              "Message: ", apiError>>))
    /\ UNCHANGED <<flowEntry, flowIntent, flowSigner, flowPayload, flowCause, signOutcome,
                   constructs, signRequests, posts, submitted>>

FlowSources ==
    {None,
     Some(BaseIntent.source),
     Some([BaseIntent.source EXCEPT !.network_id = "ETHEREUM", !.payment_token = "USDT"]),
     Some([BaseIntent.source EXCEPT !.network_id = "SOLANA"]),
     Some([BaseIntent.source EXCEPT !.payment_token = "EURC"])}
FlowAuthorizations ==
    {None} \cup {Some([NoAuthorization EXCEPT !.nonce = n]) : n \in NonceChoices}
\* The caller's legacy permit, as generateTokenPermit returns it (a string
\* nonce and a number deadline) and with a bigint nonce and a string deadline
InitialPermits ==
    {[signature |-> "0xlegacy-signature", nonce |-> JsString(<<3>>),
      deadline |-> JsNumber(9500)],
     [signature |-> "0xlegacy-signature", nonce |-> JsBigInt(12),
      deadline |-> JsString(<<9, 5, 0, 0>>)]}
FlowIntents ==
    {FlowIntentOf([BaseIntent EXCEPT !.expiration_date = e, !.processing_date = d,
                                     !.processing_fees = f], s, a) :
        e \in ExpirationChoices, d \in ProcessingDateChoices,
        f \in {None, Some([charge_bearer |-> "PAYER", quoteId |-> Some("quote-1")])},
        s \in FlowSources, a \in FlowAuthorizations}
    \cup
    {[FlowIntentOf([BaseIntent EXCEPT !.expiration_date = e], s,
                   Some([NoAuthorization EXCEPT !.nonce = Some(7)]))
        EXCEPT !.initial_permit = Some(p)] :
        e \in ExpirationChoices, s \in FlowSources, p \in InitialPermits}
FlowSigners == [key : {"key-1", "key-2"}, native : BOOLEAN]

FlowIdle ==
    /\ flowEntry = "sign"
    /\ flowPc = "off"
    /\ flowIntent = FlowIntentOf(BaseIntent, None, None)
    /\ flowSigner = [key |-> "key-1", native |-> TRUE]
    /\ flowPayload = None
    /\ flowCause = ""
    /\ signOutcome = NoOutcome
    /\ constructs = 0
    /\ signRequests = 0
    /\ posts = 0
    /\ submitted = None
    /\ flowResult = FlowPending

FlowInit ==
    /\ flowEntry \in {"sign", "signAndInitiate"}
    /\ flowPc = "idle"
    /\ flowIntent \in FlowIntents
    /\ flowSigner \in FlowSigners
    /\ flowPayload = None
    /\ flowCause = ""
    /\ signOutcome = NoOutcome
    /\ constructs = 0
    /\ signRequests = 0
    /\ posts = 0
    /\ submitted = None
    /\ flowResult = FlowPending

FlowNext ==
    \/ \E q \in (IF QuoteRequested(flowIntent) THEN QuoteOutcomes ELSE {NoQuote}) :
            signPaymentIntent(q)
    \/ \E answer \in SignerBehaviours : SignerAnswers(answer)
    \/ \E resp \in PostResponses : PostReturns(resp)
    \/ \E apiError \in ApiErrors : PostFails(apiError)

(***************************************************************************)
(* The amount conversion on its own                                        *)
(***************************************************************************)
MaxConvCents == 1000
ConvDecimals == {TokenDecimals[t] : t \in TokenSymbols}

ConvIdle ==
    /\ convPc = "off"
    /\ convIn = [amountInCents |-> 0, decimals |-> 6]
    /\ convOut = <<>>

ConvInit ==
    /\ convPc = "idle"
    /\ convIn \in [amountInCents : 0..MaxConvCents, decimals : ConvDecimals]
    /\ convOut = <<>>

Convert ==
    /\ convPc = "idle"
    /\ convOut' = ConvertedDigits(convIn.amountInCents, convIn.decimals)
    /\ convPc' = "done"
    /\ UNCHANGED convIn

(***************************************************************************)
(* Token permits: PermitService and the permit utilities                   *)
(***************************************************************************)
\* String.prototype.toUpperCase on the symbols and keys the model uses
toUpperCase(str) ==
    CASE str = "usdc" -> "USDC"
      [] str = "dai" -> "DAI"
      [] str = "base" -> "BASE"
      [] OTHER -> str

EIP2612_PERMIT_TYPES ==
    [Permit |-> << <<"owner", "address">>, <<"spender", "address">>,
                   <<"value", "uint256">>, <<"nonce", "uint256">>,
                   <<"deadline", "uint256">> >>]
DAI_PERMIT_TYPES ==
    [Permit |-> << <<"holder", "address">>, <<"spender", "address">>,
                   <<"nonce", "uint256">>, <<"expiry", "uint256">>,
                   <<"allowed", "bool">> >>]

TOKEN_PERMIT_TYPES ==
    [t \in TokenSymbols |-> [n \in NetworkKeys |->
        CASE t = "USDC" -> "EIP2612"
          [] t = "USDT" -> "REGULAR"
          [] t = "DAI" /\ n \in {"ETHEREUM", "POLYGON"} -> "DAI"
          [] t = "DAI" /\ n \in {"OPTIMISM", "ARBITRUM"} -> "EIP2612"
          [] t = "DAI" /\ n = "BASE" -> "REGULAR"]]

\* getTokenPermitType: the entry of the table, or "null"
getTokenPermitTypeByToken(tokenSymbol, network) ==
    IF tokenSymbol \notin TokenSymbols \/ network \notin NetworkKeys THEN "null"
    ELSE TOKEN_PERMIT_TYPES[tokenSymbol]["ETHEREUM"]
getTokenPermitType(tokenSymbol, network) ==
    IF tokenSymbol \notin TokenSymbols THEN "null"
    ELSE IF network \notin NetworkKeys THEN "null"
    ELSE TOKEN_PERMIT_TYPES[tokenSymbol][network]

\* isPermitSupported
HasPermitEntry(tokenSymbol, network) == getTokenPermitType(tokenSymbol, network) # "null"
isPermitSupported(tokenSymbol, network) ==
    /\ getTokenPermitType(tokenSymbol, network) # "null"
    /\ getTokenPermitType(tokenSymbol, network) # "REGULAR"

NotSupportedError(tokenSymbol, network) ==
    <<"Token ", tokenSymbol, " does not support permit on ", network>>

\* getTokenNameAndVersion: a read that fails falls back to a fixed string
NameOrDefault(read) == IF IsSet(read) THEN Val(read) ELSE "Unknown Token"
VersionAsRead(read) == IF IsSet(read) THEN Val(read) ELSE ""
VersionOrDefault(read) == IF IsSet(read) THEN Val(read) ELSE "1"

\* PermitService.generateEIP2612Payload, given what the reads returned
generateEIP2612Payload(params, name, version, nonce, chainId) ==
    [domain |-> [name |-> name, version |-> version, chainId |-> chainId,
                 verifyingContract |-> params.token],
     types |-> EIP2612_PERMIT_TYPES,
     values |-> [owner |-> params.owner, spender |-> params.spender,
                 value |-> params.value, nonce |-> nonce,
                 deadline |-> params.deadline]]

\* PermitService.generateDAIPayload, given what the reads returned
generateDAIPayload(params, name, version, nonce, chainId) ==
    [domain |-> [name |-> name, version |-> "1", chainId |-> chainId,
                 verifyingContract |-> params.token],
     types |-> DAI_PERMIT_TYPES,
     values |-> [holder |-> params.owner, spender |-> params.spender,
                 nonce |-> nonce, expiry |-> params.deadline, allowed |-> TRUE]]

\* The switch of getPermitPayload
PermitPayloadOf(permitType, params, name, version, nonce, chainId) ==
    IF permitType = "DAI"
    THEN generateDAIPayload(params, name, version, nonce, chainId)
    ELSE generateEIP2612Payload(params, name, version, nonce, chainId)

\* The methods, the calls and what the token contract answers
PermitMethods == {"getPermitPayload", "getTokenPermitPayload", "generateTokenPermit"}
PermitSymbols == TokenSymbols \cup {"usdc", "EURC"}
PermitNetworks == NetworkKeys \cup {"SEPOLIA"}
MaxLedgerNonce == 1
PermitCalls ==
    {c \in [method : PermitMethods, tokenSymbol : PermitSymbols,
            network : PermitNetworks, nonce : {None, Some(0), Some(3)}] :
        c.method # "getPermitPayload" => c.nonce = None}
TokenContracts ==
    [name : {None, Some("USD Coin")},
     version : {None, Some("2")},
     nonces : {None} \cup {Some(n) : n \in 0..MaxLedgerNonce},
     getNonce : {None, Some(5)}]

\* The two definitions of getTokenNonce in permit-utils.ts
NonceDefinitions == {"nonces then getNonce", "nonces only"}

\* The params the payload builders receive: the wrappers of
\* PaymentIntentSigner fill them in, a direct caller passes them.
PermitParams(c) ==
    [token |-> TokenAddress[toUpperCase(c.tokenSymbol)][toUpperCase(c.network)],
     owner |-> "0x3234567890123456789012345678901234567890",
     spender |-> PERMIT2_ADDRESS,
     value |-> "MaxUint256",
     deadline |-> 9000,
     nonce |-> c.nonce]

NoPermitResult == [kind |-> "none", message |-> <<>>, payload |-> None, permit |-> None]
PermitThrew(message) ==
    [kind |-> "error", message |-> message, payload |-> None, permit |-> None]
PermitPayloadReturned(p) ==
    [kind |-> "payload", message |-> <<>>, payload |-> Some(p), permit |-> None]
PermitReturned(p, sig, nonce, deadline) ==
    [kind |-> "permit", message |-> <<>>, payload |-> Some(p),
     permit |-> Some([signature |-> sig, nonce |-> NumberToString(nonce),
                      deadline |-> deadline])]

\* The catch of generateAndSignPermit
CatchPermitError(message) ==
    IF \E k \in 1..Len(message) : message[k] = "user rejected signing"
    THEN <<"User rejected the permit signature request">>
    ELSE <<"Permit generation failed: ">> \o message

\* What the call throws before any read is made, or <<>>
EntryError(c, s) ==
    IF c.method # "getPermitPayload" /\ ~isPermitSupported(c.tokenSymbol, c.network)
    THEN NotSupportedError(c.tokenSymbol, c.network)
    ELSE IF c.method = "generateTokenPermit" /\ ~s.provider
    THEN <<"Signer must be connected to a provider">>
    ELSE IF getTokenPermitType(toUpperCase(c.tokenSymbol), toUpperCase(c.network))
                \in {"null", "REGULAR"}
    THEN IF c.method = "generateTokenPermit"
         THEN CatchPermitError(NotSupportedError(toUpperCase(c.tokenSymbol),
                                                 toUpperCase(c.network)))
         ELSE NotSupportedError(toUpperCase(c.tokenSymbol), toUpperCase(c.network))
    ELSE <<>>

\* The signature of a permit payload: a function of the key and the payload
SignPermit(key, payload) == <<"signature", key, payload>>

\* A failure after the entry checks: generateTokenPermit rewords it.
PermitFails(message) ==
    /\ permitPc' = "failed"
    /\ permitResult' = PermitThrew(IF permitCall.method = "generateTokenPermit"
                                   THEN CatchPermitError(message)
                                   ELSE message)
    /\ UNCHANGED <<permitLocals, permitSignRequests>>

\* The nonce is known.  While the payload is being built the payload is
\* completed; generateAndSignPermit then obtains the nonce once more for
\* its return value and asks the signer.
NonceObtained(n) ==
    LET c == permitCall
        permitType == getTokenPermitType(toUpperCase(c.tokenSymbol), toUpperCase(c.network))
        payload == PermitPayloadOf(permitType, PermitParams(c), permitLocals.name,
                                   permitLocals.version, n,
                                   NETWORK_IDS[toUpperCase(c.network)])
    IN  IF permitLocals.phase = "payload"
        THEN IF c.method # "generateTokenPermit"
             THEN /\ permitPc' = "done"
                  /\ permitResult' = PermitPayloadReturned(payload)
                  /\ permitLocals' = [permitLocals EXCEPT !.nonce = Some(n)]
                  /\ UNCHANGED permitSignRequests
             ELSE /\ permitLocals' = [permitLocals EXCEPT !.nonce = Some(n),
                                                          !.payload = Some(payload),
                                                          !.phase = "sign"]
                  /\ permitPc' = "nonces"
                  /\ UNCHANGED <<permitResult, permitSignRequests>>
        ELSE /\ permitLocals' = [permitLocals EXCEPT !.nonce = Some(n)]
             /\ permitPc' = "signing"
             /\ permitSignRequests' = permitSignRequests + 1
             /\ UNCHANGED permitResult

\* The call up to its first read of the token contract
CallPermitMethod ==
    /\ permitPc = "idle"
    /\ IF EntryError(permitCall, permitSigner) # <<>>
       THEN /\ permitPc' = "failed"
            /\ permitResult' = PermitThrew(EntryError(permitCall, permitSigner))
       ELSE /\ permitPc' = "name"
            /\ UNCHANGED permitResult
    /\ UNCHANGED <<permitCall, tokenContract, nonceDefinition, permitSigner, ledgerReads,
                   permitSignRequests, permitLocals>>

\* getTokenNameAndVersion: name() answers or fails
ReadName ==
    /\ permitPc = "name"
    /\ ledgerReads' = Append(ledgerReads, "name")
    /\ permitLocals' = [permitLocals EXCEPT !.name = NameOrDefault(tokenContract.name)]
    /\ permitPc' = "version"
    /\ UNCHANGED <<permitCall, tokenContract, nonceDefinition, permitSigner,
                   permitSignRequests, permitResult>>

\* getTokenNameAndVersion: version() answers or fails; with a nonce in the
\* params the payload is then complete
ReadVersion ==
    /\ permitPc = "version"
    /\ ledgerReads' = Append(ledgerReads, "version")
    /\ IF IsSet(permitCall.nonce)
       THEN LET c == permitCall
                permitType == getTokenPermitType(toUpperCase(c.tokenSymbol),
                                                 toUpperCase(c.network))
            IN  /\ permitPc' = "done"
                /\ permitResult' = PermitPayloadReturned(
                        PermitPayloadOf(permitType, PermitParams(c), permitLocals.name,
                                        VersionOrDefault(tokenContract.version),
                                        Val(c.nonce), NETWORK_IDS[toUpperCase(c.network)]))
                /\ permitLocals' = [permitLocals EXCEPT
                                        !.version = VersionOrDefault(tokenContract.version),
                                        !.nonce = c.nonce]
       ELSE /\ permitPc' = "nonces"
            /\ permitLocals' = [permitLocals EXCEPT
                                    !.version = VersionOrDefault(tokenContract.version)]
            /\ UNCHANGED permitResult
    /\ UNCHANGED <<permitCall, tokenContract, nonceDefinition, permitSigner,
                   permitSignRequests>>

\* getTokenNonce: nonces(owner) answers or fails
ReadNonces ==
    /\ permitPc = "nonces"
    /\ ledgerReads' = Append(ledgerReads, "nonces")
    /\ IF IsSet(tokenContract.nonces)
       THEN NonceObtained(Val(tokenContract.nonces))
       ELSE IF nonceDefinition = "nonces then getNonce"
       THEN /\ permitPc' = "getNonce"
            /\ UNCHANGED <<permitLocals, permitSignRequests, permitResult>>
       ELSE PermitFails(<<"call revert exception">>)
    /\ UNCHANGED <<permitCall, tokenContract, nonceDefinition, permitSigner>>

\* getTokenNonce: getNonce(owner) answers or fails
ReadGetNonce ==
    /\ permitPc = "getNonce"
    /\ ledgerReads' = Append(ledgerReads, "getNonce")
    /\ IF IsSet(tokenContract.getNonce)
       THEN NonceObtained(Val(tokenContract.getNonce))
       ELSE PermitFails(<<"Failed to get nonce: Neither nonces() nor getNonce() methods available for token ",
                          PermitParams(permitCall).token>>)
    /\ UNCHANGED <<permitCall, tokenContract, nonceDefinition, permitSigner>>

\* generateAndSignPermit: the signer answers
PermitSignerAnswers(answer) ==
    /\ permitPc = "signing"
    /\ IF answer = "signs"
       THEN /\ permitPc' = "done"
            /\ permitResult' = PermitReturned(Val(permitLocals.payload),
                                   SignPermit(permitSigner.key, Val(permitLocals.payload)),
                                   Val(permitLocals.nonce),
                                   PermitParams(permitCall).deadline)
            /\ UNCHANGED <<permitLocals, permitSignRequests>>
       ELSE PermitFails(<<answer>>)
    /\ UNCHANGED <<permitCall, tokenContract, nonceDefinition, permitSigner, ledgerReads>>

\* Another transaction of the owner consumes a permit nonce while the call
\* is in progress: the ledger's answer to the nonce read goes up by one.
LedgerNonceAdvances ==
    /\ permitPc \in {"name", "version", "nonces", "getNonce", "signing"}
    /\ IF IsSet(tokenContract.nonces)
       THEN /\ Val(tokenContract.nonces) < MaxLedgerNonce
            /\ tokenContract' = [tokenContract EXCEPT !.nonces = Some(Val(@) + 1)]
       ELSE /\ IsSet(tokenContract.getNonce)
            /\ Val(tokenContract.getNonce) < 5 + MaxLedgerNonce
            /\ tokenContract' = [tokenContract EXCEPT !.getNonce = Some(Val(@) + 1)]
    /\ UNCHANGED <<permitPc, permitCall, nonceDefinition, permitSigner, ledgerReads,
                   permitSignRequests, permitLocals, permitResult>>

NoLocals == [name |-> "", version |-> "", nonce |-> None, payload |-> None,
             phase |-> "payload"]

PermitIdle ==
    /\ permitPc = "off"
    /\ permitCall = [method |-> "getPermitPayload", tokenSymbol |-> "USDC",
                     network |-> "BASE", nonce |-> None]
    /\ tokenContract = [name |-> None, version |-> None, nonces |-> None, getNonce |-> None]
    /\ nonceDefinition = "nonces then getNonce"
    /\ permitSigner = [key |-> "key-1", provider |-> TRUE]
    /\ ledgerReads = <<>>
    /\ permitSignRequests = 0
    /\ permitLocals = NoLocals
    /\ permitResult = NoPermitResult

PermitInit ==
    /\ permitPc = "idle"
    /\ permitCall \in PermitCalls
    /\ tokenContract \in TokenContracts
    /\ nonceDefinition \in NonceDefinitions
    /\ permitSigner \in [key : {"key-1"}, provider : BOOLEAN]
    /\ ledgerReads = <<>>
    /\ permitSignRequests = 0
    /\ permitLocals = NoLocals
    /\ permitResult = NoPermitResult

PermitNext ==
    \/ CallPermitMethod
    \/ ReadName
    \/ ReadVersion
    \/ ReadNonces
    \/ ReadGetNonce
    \/ \E answer \in SignerBehaviours : PermitSignerAnswers(answer)
    \/ LedgerNonceAdvances

(***************************************************************************)
(* Specifications                                                          *)
(***************************************************************************)
HistoryIdle == overlapped = FALSE

\* One payload construction, over intents varying nonce, dates and quote.
Init == PollInit /\ OneCallInit(PayloadIntents) /\ SignIdle /\ FlowIdle /\ ConvIdle /\ PermitIdle /\ HistoryIdle
Next == PayloadNext /\ UNCHANGED <<pollVars, signVars, flowVars, convVars, permitVars, historyVars>>
Spec == Init /\ [][Next]_vars

\* One payload construction, over intents varying amount and fee rate.
FeeInit == PollInit /\ OneCallInit(FeeIntents) /\ SignIdle /\ FlowIdle /\ ConvIdle /\ PermitIdle /\ HistoryIdle
FeeSpec == FeeInit /\ [][Next]_vars

\* Two payload constructions on the same intent.
RepeatInit == PollInit /\ TwoCallInit(RepeatedIntents) /\ SignIdle /\ FlowIdle /\ ConvIdle /\ PermitIdle /\ HistoryIdle
RepeatSpec == RepeatInit /\ [][Next]_vars

\* Two payload constructions on independent intents, interleaved at their
\* suspension points; overlapped records that both were suspended at once.
ConcurrentSpecInit ==
    /\ PollInit /\ ConcurrentInit(IndependentIntents) /\ SignIdle /\ FlowIdle
    /\ ConvIdle /\ PermitIdle /\ HistoryIdle
ConcurrentSpecNext ==
    /\ PayloadNext
    /\ overlapped' = (overlapped \/ \A c \in Calls : cpc'[c] = "quote")
    /\ UNCHANGED <<pollVars, signVars, flowVars, convVars, permitVars>>
ConcurrentSpec == ConcurrentSpecInit /\ [][ConcurrentSpecNext]_vars

\* One payload construction, over the networks and tokens of the registry.
RegistryInit == PollInit /\ OneCallInit(RegistryIntents) /\ SignIdle /\ FlowIdle /\ ConvIdle /\ PermitIdle /\ HistoryIdle
RegistrySpec == RegistryInit /\ [][Next]_vars

\* The status poll.
PollSpecInit == PollInit /\ PayloadIdle /\ SignIdle /\ FlowIdle /\ ConvIdle /\ PermitIdle /\ HistoryIdle
PollSpecNext == PollNext /\ UNCHANGED <<payloadVars, signVars, flowVars, convVars, permitVars, historyVars>>
PollSpec == PollSpecInit /\ [][PollSpecNext]_vars

\* The status poll with its scheduling: the loop runs on when it can, the
\* timer of the wait fires, and every GET eventually returns or fails.
PollFairness ==
    /\ WF_vars(PollIteration /\ UNCHANGED <<payloadVars, signVars, flowVars, convVars,
                                            permitVars, historyVars>>)
    /\ WF_vars(WaitElapsed /\ UNCHANGED <<payloadVars, signVars, flowVars, convVars,
                                          permitVars, historyVars>>)
    /\ WF_vars(/\ (\E resp \in Responses : GetReturns(resp)) \/ GetFails
               /\ UNCHANGED <<payloadVars, signVars, flowVars, convVars, permitVars,
                              historyVars>>)
FairPollSpec == PollSpec /\ PollFairness

\* The signing facade.
SignSpecInit == PollInit /\ PayloadIdle /\ SignInit /\ FlowIdle /\ ConvIdle /\ PermitIdle /\ HistoryIdle
SignSpecNext == Sign /\ UNCHANGED <<pollVars, payloadVars, flowVars, convVars, permitVars, historyVars>>
SignSpec == SignSpecInit /\ [][SignSpecNext]_vars

\* signPaymentIntent and signAndInitiatePaymentIntent, with the clock.
FlowSpecInit == PollInit /\ PayloadIdle /\ SignIdle /\ FlowInit /\ ConvIdle /\ PermitIdle /\ HistoryIdle
FlowSpecNext ==
    \/ FlowNext /\ UNCHANGED <<pollVars, payloadVars, signVars, convVars, permitVars, historyVars>>
    \/ Tick /\ UNCHANGED <<pollVars, signVars, flowVars, convVars, permitVars, historyVars>>
FlowSpec == FlowSpecInit /\ [][FlowSpecNext]_vars

\* The amount conversion.
ConvSpecInit == PollInit /\ PayloadIdle /\ SignIdle /\ FlowIdle /\ ConvInit /\ PermitIdle /\ HistoryIdle
ConvSpecNext == Convert /\ UNCHANGED <<pollVars, payloadVars, signVars, flowVars, permitVars, historyVars>>
ConvSpec == ConvSpecInit /\ [][ConvSpecNext]_vars

\* The token permit methods.
PermitSpecInit ==
    PollInit /\ PayloadIdle /\ SignIdle /\ FlowIdle /\ ConvIdle /\ PermitInit /\ HistoryIdle
PermitSpecNext ==
    PermitNext /\ UNCHANGED <<pollVars, payloadVars, signVars, flowVars, convVars, historyVars>>
PermitSpec == PermitSpecInit /\ [][PermitSpecNext]_vars

(***************************************************************************)
(* Claims                                                                  *)
(***************************************************************************)
PayloadValues(c) == Val(built[c].payload).values

\* C1: in every payload built, with gross the amount recorded in the witness
\* and bps the operator's fee rate (0 when unset), the operator leg is
\* floor(gross * bps / 10000), the gateway leg is floor(gross * 10 / 10000),
\* the payee leg is gross minus the two, the three legs sum to gross, and no
\* call ever ends in the 'Amount mismatch' error.
C1_FeeSplitExact ==
    \A c \in Calls :
        /\ built[c].error # "Amount mismatch"
        /\ built[c].kind = "payload" =>
              LET v == PayloadValues(c)
                  gross == v.witness.amount
                  bps == IF IsSet(intent[c].operator_data.fee_bps)
                         THEN Val(intent[c].operator_data.fee_bps) ELSE 0
                  payee == v.permitted[1].amount
                  operatorFee == v.permitted[2].amount
                  gatewayFee == v.permitted[3].amount
              IN  /\ gross >= 0
                  /\ bps \in 0..10000
                  /\ operatorFee = (gross * bps) \div 10000
                  /\ gatewayFee = (gross * 10) \div 10000
                  /\ payee = gross - operatorFee - gatewayFee
                  /\ payee + operatorFee + gatewayFee = gross

\* A payload whose operator fee and gateway fee were both rounded down.
C1_Witness ==
    /\ built[1].kind = "payload"
    /\ (PayloadValues(1).witness.amount * FeeBps(intent[1])) % 10000 # 0
    /\ (PayloadValues(1).witness.amount * 10) % 10000 # 0
    /\ PayloadValues(1).permitted[2].amount > 0

\* C2: a response with a non-final status never ends the poll in a return;
\* the response with status COMPLETED is returned as it is; a response with
\* status FAILED ends the poll in the 'Payment failed' error whose details
\* carry that response's status and transaction error; and once a response
\* with a final status has been received no further GET is issued.
C2_PollingTerminalStates ==
    /\ [](/\ pollPc = "wait" => (pollResult = NoResult
                                 /\ lastPaymentIntent.status
                                        \in {"SCHEDULED", "PROCESSING", "RELEASED_TO_GATEWAY"})
          /\ pollPc = "returned" =>
                lastPaymentIntent.status \notin {"SCHEDULED", "PROCESSING", "RELEASED_TO_GATEWAY"}
          /\ lastPaymentIntent.status = "COMPLETED" =>
                (pollPc = "returned" /\ pollResult = Returned(lastPaymentIntent))
          /\ lastPaymentIntent.status = "FAILED" =>
                (/\ pollPc = "threw"
                 /\ pollResult.kind = "error"
                 /\ pollResult.message = "Payment failed"
                 /\ pollResult.details.lastStatus = "FAILED"
                 /\ pollResult.details.error = lastPaymentIntent.error))
    /\ [][terminalSeen => gets' = gets]_vars

\* A poll that went through three non-final responses and then met FAILED
\* with a transaction error.
C2_Witness ==
    /\ pollPc = "threw"
    /\ pollResult.message = "Payment failed"
    /\ pollResult.details.error = "execution reverted"
    /\ gets = 4

\* C3: a poll that has received a response with status CANCELLED has ended in
\* an error and has not returned.
C3_CancelledIsError ==
    lastPaymentIntent.status = "CANCELLED" =>
        (pollPc = "threw" /\ pollResult.kind = "error")

\* C4: every step taken at the head of an iteration while the abort signal
\* is set ends the poll in the 'polling was aborted' error, with the details
\* of the last response received (or none), and issues no GET.
C4_AbortSemantics ==
    [][(pollPc = "loop" /\ attempts < maxAttempts /\ aborted) =>
           (/\ pollPc' = "threw"
            /\ pollResult'.kind = "error"
            /\ pollResult'.message = "Payment status polling was aborted"
            /\ pollResult'.details = formatPaymentDetails(lastPaymentIntent)
            /\ gets' = gets)]_vars

\* A poll aborted after its second GET had returned PROCESSING.
C4_Witness ==
    /\ pollPc = "threw"
    /\ aborted
    /\ pollResult.message = "Payment status polling was aborted"
    /\ pollResult.details.lastStatus = "PROCESSING"
    /\ gets = 2

\* C5: the poll goes on only while attempts < maxAttempts; the 'Payment
\* timeout reached' error is raised after exactly maxAttempts GETs, none of
\* which returned a final status, and carries the status of the last
\* response; and a poll that has issued maxAttempts GETs, all of them
\* answered with a non-final status, has ended in that error.
C5_PollingTimeout ==
    /\ pollPc \in {"loop", "wait", "get"} => attempts < maxAttempts
    /\ pollResult.message # "Payment status polling exceeded maximum attempts"
    /\ (pollPc = "threw" /\ pollResult.message = "Payment timeout reached") =>
          (/\ gets = maxAttempts
           /\ ~terminalSeen
           /\ lastPaymentIntent.status \in {"SCHEDULED", "PROCESSING", "RELEASED_TO_GATEWAY"}
           /\ pollResult.details.lastStatus = lastPaymentIntent.status)
    /\ (/\ pollPc \notin {"idle", "get"}
        /\ gets = maxAttempts
        /\ ~terminalSeen
        /\ pollResult.message # "Error while polling payment status") =>
          (pollPc = "threw" /\ pollResult.message = "Payment timeout reached")

\* A poll that timed out after three GETs.
C5_Witness ==
    /\ pollPc = "threw"
    /\ pollResult.message = "Payment timeout reached"
    /\ maxAttempts = 3
    /\ gets = 3

\* C6: a payload built from an intent that provides a permit nonce carries
\* that nonce, whatever its value; and a call on an intent that provides no
\* nonce (and has its expiration date) ends with a payload whose nonce is a
\* reading of the millisecond clock.
C6_NonceClaim ==
    \A c \in Calls :
        /\ (built[c].kind = "payload" /\ IsSet(intent[c].nonce)) =>
              PayloadValues(c).nonce = Val(intent[c].nonce)
        /\ (CallEnded(c) /\ ~IsSet(intent[c].nonce) /\ IsSet(intent[c].expiration_date)) =>
              (built[c].kind = "payload" /\ PayloadValues(c).nonce \in ClockValues)

\* C7: a payload built from an intent with a (non-zero) expiration_date has
\* that date as its deadline; and a call on an intent with no
\* expiration_date (and with a nonce) ends with a payload whose deadline is
\* a reading of the clock in seconds plus 3600.
C7_DeadlineClaim ==
    \A c \in Calls :
        /\ (/\ built[c].kind = "payload"
            /\ IsSet(intent[c].expiration_date)
            /\ Val(intent[c].expiration_date) # 0) =>
              PayloadValues(c).deadline = Val(intent[c].expiration_date)
        /\ (CallEnded(c) /\ ~IsSet(intent[c].expiration_date) /\ IsSet(intent[c].nonce)) =>
              (/\ built[c].kind = "payload"
               /\ PayloadValues(c).deadline \in {Seconds(t) + 3600 : t \in ClockValues})

\* C8 as stated: two calls on the same intent, which fixes the nonce and the
\* expiration date (to non-zero values) and may leave anything else unset,
\* that met the same quote, return the same payload.
C8_Deterministic ==
    (/\ built[1].kind = "payload"
     /\ built[2].kind = "payload"
     /\ intent[1] = intent[2]
     /\ IsSet(intent[1].nonce) /\ Val(intent[1].nonce) # 0
     /\ IsSet(intent[1].expiration_date) /\ Val(intent[1].expiration_date) # 0
     /\ quoteSeen[1] = quoteSeen[2]) =>
        built[1].payload = built[2].payload

\* C8 as amended: two calls on the same intent, which sets the nonce, the
\* expiration date and the processing date to non-zero values, that met the
\* same quote, return the same payload whatever the clock reads at each.
C8_DeterministicAmended ==
    (/\ built[1].kind = "payload"
     /\ built[2].kind = "payload"
     /\ intent[1] = intent[2]
     /\ IsSet(intent[1].nonce) /\ Val(intent[1].nonce) # 0
     /\ IsSet(intent[1].expiration_date) /\ Val(intent[1].expiration_date) # 0
     /\ IsSet(intent[1].processing_date) /\ Val(intent[1].processing_date) # 0
     /\ quoteSeen[1] = quoteSeen[2]) =>
        built[1].payload = built[2].payload

\* Two calls on an intent with nonce and both dates set, which ended in
\* different seconds of the clock, after the same quote with a fee.
C8_Witness ==
    /\ built[1].kind = "payload"
    /\ built[2].kind = "payload"
    /\ IsSet(intent[1].nonce) /\ Val(intent[1].nonce) # 0
    /\ IsSet(intent[1].expiration_date) /\ Val(intent[1].expiration_date) # 0
    /\ IsSet(intent[1].processing_date) /\ Val(intent[1].processing_date) # 0
    /\ quoteSeen[1] = quoteSeen[2]
    /\ quoteSeen[1].kind = "fee"
    /\ Seconds(built[1].at) # Seconds(built[2].at)

\* C9: the signature the facade returns is the one native typed-data
\* signing produces for the same key and payload, whether the signer has
\* _signTypedData or the facade synthesizes it.
C9_FacadeEquivalence ==
    signPc = "signed" =>
        signature = NativeSignTypedData(signer.key, typedData.domain, typedData.types,
                                        typedData.values)

\* C10: a call that requested a quote and whose quote fetch failed ends as
\* the call without a quote request does: it fails only where that call
\* fails too (a nonce or expiration date left unset), never with the error
\* of the fetch, and the payload it builds has the unadjusted conversion of
\* intent.amount as its gross amount and as the sum of its three legs.
C10_QuoteFailureFallsBack ==
    \A c \in Calls :
        (CallEnded(c) /\ QuoteRequested(intent[c]) /\ quoteSeen[c] \in QuoteFailures) =>
            LET unadjusted ==
                    convertAmountToDecimals(intent[c].amount, SourceDecimals(intent[c]))
            IN  /\ built[c].error \in {"", "TypeError: Cannot convert undefined to a BigInt"}
                /\ built[c].kind = "error" <=>
                      (~IsSet(intent[c].nonce) \/ ~IsSet(intent[c].expiration_date))
                /\ built[c].kind = "payload" =>
                      /\ PayloadValues(c).witness.amount = unadjusted
                      /\ PayloadValues(c).permitted[1].amount
                            + PayloadValues(c).permitted[2].amount
                            + PayloadValues(c).permitted[3].amount = unadjusted

\* A payload built after the quote fetch returned an empty list of quotes.
C10_Witness ==
    /\ built[1].kind = "payload"
    /\ QuoteRequested(intent[1])
    /\ quoteSeen[1].kind = "no quotes"
    /\ PayloadValues(1).witness.amount = 20000

\* A decimal string: digits only, no leading zero unless it is "0".
IsDecimalString(str) ==
    /\ Len(str) >= 1
    /\ \A k \in 1..Len(str) : str[k] \in 0..9
    /\ Len(str) > 1 => str[1] # 0

\* C11: every failure inside signPaymentIntent (the payload construction
\* throws, or the signer errs or rejects) makes signPaymentIntent throw one
\* error whose message starts with 'Failed to sign payment intent' and ends
\* with the original cause, and no authorization is returned.
C11_SignFailureWrapped ==
    /\ flowCause # "" => signOutcome.kind = "error"
    /\ signOutcome.kind = "error" =>
        /\ flowCause # ""
        /\ Len(signOutcome.message) >= 2
        /\ signOutcome.message[1] = "Failed to sign payment intent: "
        /\ signOutcome.message[Len(signOutcome.message)] = flowCause
        /\ signOutcome.authorization = None
        /\ flowEntry = "sign" => flowResult = FlowThrew(signOutcome.message)

\* C11 witness: the intent without a source of the repository's test was
\* signed and the call failed with the wrapped TypeError.
C11_Witness ==
    /\ flowEntry = "sign"
    /\ ~IsSet(flowIntent.source)
    /\ flowResult.kind = "error"
    /\ flowCause \in TypeErrors

\* C12: the authorization signPaymentIntent returns carries the nonce and the
\* deadline of the signed payload as decimal strings and the signer's
\* signature over that payload, after one construction and one signing
\* request.
C12_AuthorizationMatchesPayload ==
    signOutcome.kind = "return" =>
        LET a == Val(signOutcome.authorization)
            p == Val(flowPayload)
        IN  /\ IsDecimalString(a.nonce)
            /\ StringToNumber(a.nonce) = p.values.nonce
            /\ IsDecimalString(a.deadline)
            /\ StringToNumber(a.deadline) = p.values.deadline
            /\ a.signature = SignTypedData(flowSigner, p.domain, p.types, p.values)
            /\ constructs = 1
            /\ signRequests = 1

\* C12 witness: an authorization was returned for a payload whose nonce and
\* deadline have several digits and differ from each other.
C12_Witness ==
    /\ signOutcome.kind = "return"
    /\ flowEntry = "sign"
    /\ flowPc = "done"
    /\ Len(Val(signOutcome.authorization).nonce) > 1
    /\ Val(signOutcome.authorization).nonce # Val(signOutcome.authorization).deadline

\* C13: signAndInitiatePaymentIntent posts at most once, only after
\* signPaymentIntent returned, and the posted permit2_permit carries the
\* signature, nonce and deadline of the signer's authorization; when
\* signPaymentIntent throws nothing is posted and the caller gets the error.
C13_SignBeforeSubmit ==
    /\ posts <= 1
    /\ IsSet(submitted) <=> posts = 1
    /\ posts = 1 =>
        /\ flowEntry = "signAndInitiate"
        /\ signOutcome.kind = "return"
        /\ LET a == Val(signOutcome.authorization)
               sent == Val(submitted).permit2_permit
           IN  /\ sent.signature = a.signature
               /\ sent.nonce = a.nonce
               /\ sent.deadline = Val(flowPayload).values.deadline
               /\ NumberToString(sent.deadline) = a.deadline
    /\ signOutcome.kind = "error" =>
        /\ posts = 0
        /\ flowResult.kind = "error"
        /\ LET m == flowResult.message
               w == signOutcome.message
           IN  /\ Len(m) >= Len(w)
               /\ SubSeq(m, Len(m) - Len(w) + 1, Len(m)) = w

\* C13 witness: an intent was signed, posted once and the POST resolved.
C13_Witness ==
    /\ flowEntry = "signAndInitiate"
    /\ posts = 1
    /\ flowPc = "done"
    /\ Val(submitted).permit2_permit.signature # <<>>

\* C16: an amount in cents converts to floor(cents / 100 * 10^decimals), that
\* is to the digits of the cents followed by decimals - 2 zeros, for the
\* configured decimals 6 and 18; where the integers fit, 100 times the
\* result is cents * 10^decimals.
C16_AmountConversion ==
    convPc = "done" =>
        /\ IsDecimalString(convOut)
        /\ convOut = (IF convIn.amountInCents = 0
                      THEN <<0>>
                      ELSE NumberToString(convIn.amountInCents)
                           \o Zeros(convIn.decimals - 2))
        /\ convIn.decimals = 6 =>
            100 * StringToNumber(convOut) = convIn.amountInCents * 1000000

\* C16 witness: 1000 cents with 6 decimals gave 10000000.
C16_Witness ==
    /\ convPc = "done"
    /\ convIn = [amountInCents |-> 1000, decimals |-> 6]
    /\ StringToNumber(convOut) = 10000000

\* C14: every payload permits exactly three transfers, in the order payee,
\* operator fee, gateway fee, each in the source token, and their amounts
\* sum to the gross amount recorded as witness.amount.
C14_PermittedTransfers ==
    built[1].kind = "payload" =>
        LET v == PayloadValues(1)
            i == intent[1]
            gross == v.witness.amount
            operatorLeg == (gross * v.witness.operator_data.fee) \div 10000
            gatewayLeg == (gross * 10) \div 10000
        IN  /\ Len(v.permitted) = 3
            /\ \A k \in 1..3 :
                  v.permitted[k].token = TokenAddress[i.source.payment_token][i.source.network_id]
            /\ v.permitted[2].amount = operatorLeg
            /\ v.permitted[3].amount = gatewayLeg
            /\ v.permitted[1].amount = gross - operatorLeg - gatewayLeg
            /\ v.permitted[1].amount + v.permitted[2].amount + v.permitted[3].amount = gross

\* C14 witness: a payload whose three legs are all positive and different,
\* for a source token other than the destination token.
C14_Witness ==
    /\ built[1].kind = "payload"
    /\ intent[1].source.payment_token # intent[1].destination.payment_token
    /\ PayloadValues(1).permitted[3].amount > 0
    /\ PayloadValues(1).permitted[2].amount > PayloadValues(1).permitted[3].amount
    /\ PayloadValues(1).permitted[1].amount > PayloadValues(1).permitted[2].amount

\* C15: the domain of every payload has exactly the fields name, chainId and
\* verifyingContract, with the global Permit2 address as verifyingContract
\* and the chain id of the source network as chainId.
C15_BatchWitnessDomain ==
    built[1].kind = "payload" =>
        LET d == Val(built[1].payload).domain
        IN  /\ DOMAIN d = {"name", "chainId", "verifyingContract"}
            /\ d.name = "Permit2"
            /\ d.verifyingContract = "0x000000000022D473030F116dDEE9F6B43aC78BA3"
            /\ d.chainId = NETWORK_IDS[intent[1].source.network_id]
            /\ intent[1].source.network_id # intent[1].destination.network_id =>
                  d.chainId # NETWORK_IDS[intent[1].destination.network_id]

\* C15 witness: a payload for a payment from one network to another.
C15_Witness ==
    /\ built[1].kind = "payload"
    /\ intent[1].source.network_id = "ARBITRUM"
    /\ intent[1].destination.network_id = "OPTIMISM"
    /\ Val(built[1].payload).domain.chainId = 42161

\* The entry of the permit table for the pair of a call, whatever the case
\* of its letters, or "null"
MarkedPermitType ==
    LET t == toUpperCase(permitCall.tokenSymbol)
        n == toUpperCase(permitCall.network)
    IN  IF t \in TokenSymbols /\ n \in NetworkKeys THEN TOKEN_PERMIT_TYPES[t][n] ELSE "null"

FieldNames(fields) == [k \in 1..Len(fields) |-> fields[k][1]]

\* C17: a payload is produced only for a pair the table marks DAI or
\* EIP2612; for a DAI pair it has the DAI values {holder, spender, nonce,
\* expiry, allowed: true} and the DAI schema, for an EIP2612 pair the values
\* {owner, spender, value, nonce, deadline} and the EIP-2612 schema.
C17_PermitVariantDispatch ==
    IsSet(permitResult.payload) =>
        LET p == Val(permitResult.payload)
        IN  /\ MarkedPermitType \in {"DAI", "EIP2612"}
            /\ MarkedPermitType = "DAI" =>
                /\ DOMAIN p.values = {"holder", "spender", "nonce", "expiry", "allowed"}
                /\ p.values.allowed = TRUE
                /\ FieldNames(p.types.Permit)
                      = <<"holder", "spender", "nonce", "expiry", "allowed">>
            /\ MarkedPermitType = "EIP2612" =>
                /\ DOMAIN p.values = {"owner", "spender", "value", "nonce", "deadline"}
                /\ FieldNames(p.types.Permit)
                      = <<"owner", "spender", "value", "nonce", "deadline">>

\* C17 witness: getPermitPayload returned the EIP-2612 payload of DAI on
\* Optimism, a token that is a DAI pair on other networks.
C17_Witness ==
    /\ permitCall.method = "getPermitPayload"
    /\ permitCall.tokenSymbol = "DAI"
    /\ permitCall.network = "OPTIMISM"
    /\ permitResult.kind = "payload"
    /\ "deadline" \in DOMAIN Val(permitResult.payload).values

\* C18: for a pair that is REGULAR or absent from the permit table, each of
\* the three methods fails with the 'does not support permit' error, having
\* read nothing from the ledger and asked no signature.
C18_NoPermitVariant ==
    (MarkedPermitType \in {"REGULAR", "null"} /\ permitPc \notin {"off", "idle"}) =>
        /\ permitPc = "failed"
        /\ permitResult.kind = "error"
        /\ \E k \in 1..Len(permitResult.message) :
              permitResult.message[k] = " does not support permit on "
        /\ ledgerReads = <<>>
        /\ permitSignRequests = 0

\* C18 witness: generateTokenPermit was called for USDT with a signer that
\* has no provider, and failed.
C18_Witness ==
    /\ permitCall.method = "generateTokenPermit"
    /\ permitCall.tokenSymbol = "USDT"
    /\ ~permitSigner.provider
    /\ permitPc = "failed"

\* C19 as stated: without a nonce in the params, nonces(owner) is read
\* first and getNonce(owner) only after it failed; the nonce read fails only
\* when both reads fail, and then with the nonce-unavailable error.
C19_NonceFallback ==
    /\ \A k \in 1..Len(ledgerReads) :
          ledgerReads[k] = "getNonce" =>
              k > 1 /\ ledgerReads[k - 1] = "nonces" /\ ~IsSet(tokenContract.nonces)
    /\ (permitPc = "failed" /\ ledgerReads # <<>> /\ permitSignRequests = 0) =>
        /\ ~IsSet(tokenContract.nonces)
        /\ ~IsSet(tokenContract.getNonce)
        /\ \E k \in 1..Len(permitResult.message) :
              permitResult.message[k] =
                "Failed to get nonce: Neither nonces() nor getNonce() methods available for token "

\* C20: the domain of an EIP2612 payload is {name, version, chainId,
\* verifyingContract = token address} with the name and version the token
\* answers, 'Unknown Token' for a failed name() and '1' for a failed
\* version(), each on its own; the domain of a DAI payload has version '1'
\* whatever version() answers; a failed name() or version() never fails the
\* call.
C20_PermitDomain ==
    /\ IsSet(permitResult.payload) =>
        LET d == Val(permitResult.payload).domain
            t == toUpperCase(permitCall.tokenSymbol)
            n == toUpperCase(permitCall.network)
        IN  /\ DOMAIN d = {"name", "version", "chainId", "verifyingContract"}
            /\ d.chainId = NETWORK_IDS[n]
            /\ d.verifyingContract = TokenAddress[t][n]
            /\ d.name = (IF tokenContract.name = <<>> THEN "Unknown Token"
                         ELSE tokenContract.name[1])
            /\ MarkedPermitType = "EIP2612" =>
                d.version = (IF tokenContract.version = <<>> THEN "1"
                             ELSE tokenContract.version[1])
            /\ MarkedPermitType = "DAI" => d.version = "1"
    /\ (permitPc = "failed" /\ ledgerReads # <<>>) => Len(ledgerReads) >= 3

\* C20 witness: an EIP2612 payload whose token failed name() and answered
\* version().
C20_Witness ==
    /\ permitResult.kind = "payload"
    /\ MarkedPermitType = "EIP2612"
    /\ tokenContract.name = <<>>
    /\ tokenContract.version = <<"2">>
    /\ Val(permitResult.payload).domain.name = "Unknown Token"
    /\ Val(permitResult.payload).domain.version = "2"

\* C24: a GET that fails ends the poll in that very step with the error
\* 'Error while polling payment status', whose details are those of the last
\* response received before the failure (or the fixed text when there was
\* none); a GET is issued only while no response or a response with a
\* non-final status is the last one known, and never after the poll ended.
C24_GetFailureEndsPoll ==
    [][/\ GetFails =>
            /\ pollPc' = "threw"
            /\ pollResult'.kind = "error"
            /\ pollResult'.message = "Error while polling payment status"
            /\ pollResult'.details = formatPaymentDetails(lastPaymentIntent)
            /\ gets' = gets
       /\ gets' # gets =>
            /\ ~PollEnded
            /\ lastPaymentIntent.status \notin FINAL_PAYMENT_STATES
            /\ pollResult.kind = "none"
       /\ PollEnded => (gets' = gets /\ pollResult' = pollResult)]_vars

\* The second GET failed after a first response with status PROCESSING: the
\* poll ended with two GETs issued and the error carries PROCESSING.
C24_Witness ==
    /\ pollPc = "threw"
    /\ pollResult.message = "Error while polling payment status"
    /\ pollResult.details.lastStatus = "PROCESSING"
    /\ gets = 2
    /\ attempts = 1

\* C30: in every payload built the spender of the batch permit is the
\* gateway proxy configured for the source network of the intent, and that
\* address is defined and is not the zero address.
ZeroAddress == "0x0000000000000000000000000000000000000000"
C30_SpenderNonZero ==
    \A c \in Calls :
        built[c].kind = "payload" =>
            /\ PayloadValues(c).spender = GRID_GATEWAY_PROXY[intent[c].source.network_id]
            /\ PayloadValues(c).spender # ""
            /\ PayloadValues(c).spender # ZeroAddress

\* C30, the part that holds: the spender is always the proxy configured for
\* the source network.
C30_SpenderIsConfiguredProxy ==
    \A c \in Calls :
        built[c].kind = "payload" =>
            PayloadValues(c).spender = GRID_GATEWAY_PROXY[intent[c].source.network_id]

\* C26: in every payload built from a gross amount >= 0 and an operator fee
\* rate in 0..10000 bps, the payee leg, the operator leg and the gateway leg
\* are all >= 0.
C26_LegsNonNegative ==
    \A c \in Calls :
        (/\ built[c].kind = "payload"
         /\ PayloadValues(c).witness.amount >= 0
         /\ FeeBps(intent[c]) \in 0..10000) =>
            \A k \in 1..3 : PayloadValues(c).permitted[k].amount >= 0

\* C29: in every payload built the deadline of the permit equals expires_at
\* of the witness.
C29_DeadlineEqualsExpiry ==
    \A c \in Calls :
        built[c].kind = "payload" =>
            PayloadValues(c).deadline = PayloadValues(c).witness.expires_at

\* C29, the part that holds: with a non-zero expiration_date both fields are
\* that value.
C29_SuppliedExpiry ==
    \A c \in Calls :
        (/\ built[c].kind = "payload"
         /\ IsSet(intent[c].expiration_date)
         /\ Val(intent[c].expiration_date) # 0) =>
            /\ PayloadValues(c).deadline = Val(intent[c].expiration_date)
            /\ PayloadValues(c).witness.expires_at = Val(intent[c].expiration_date)

\* The result of a call on intent i that runs alone, meets the quote outcome
\* q and reads the clock at t, the clock advancing after the k-th reading of
\* its tail (k = 4: not at all).  A call that fails in the registry lookups
\* ends before any quote is fetched.
RunAlone(i, q, t, k) ==
    LET adjusted == adjustAmountWithCorridorFees(i, q)
        reads == [j \in 1..4 |-> IF j > k THEN t + 500 ELSE t]
        end == IF k < 4 THEN t + 500 ELSE t
    IN  IF LookupError(i) # "" THEN BuildFailed(LookupError(i), t)
        ELSE IF adjusted.error # "" THEN BuildFailed(adjusted.error, end)
        ELSE IF FinishError(i, adjusted.amount) # ""
        THEN BuildFailed(FinishError(i, adjusted.amount), end)
        ELSE Built(PayloadOf(i, adjusted.amount, reads), end)

TookDefaultNonce(c) ==
    /\ built[c].kind = "payload"
    /\ Val(intent[c].nonce) = 0

C22_WitnessDistinct ==
    /\ \A c \in Calls : TookDefaultNonce(c)
    /\ PayloadValues(1).nonce < PayloadValues(2).nonce

C23_WitnessTimeout ==
    /\ PollEnded
    /\ interval = 2000
    /\ maxAttempts = 1
    /\ gets = 1

\* C25: the body submitted by signAndInitiatePaymentIntent carries an
\* initial_permit exactly when the caller's intent does, with the caller's
\* signature, the caller's nonce as its decimal string and the caller's
\* deadline as a number; its permit2_permit is the authorization that
\* signPaymentIntent returned, not the caller's.
C25_InitialPermitPreserved ==
    IsSet(submitted) =>
        LET sent == Val(submitted)
        IN  /\ IsSet(sent.initial_permit) <=> IsSet(flowIntent.initial_permit)
            /\ IsSet(flowIntent.initial_permit) =>
                  LET given == Val(flowIntent.initial_permit)
                      kept == Val(sent.initial_permit)
                  IN  /\ kept.signature = given.signature
                      /\ IsDecimalString(kept.nonce)
                      /\ StringToNumber(kept.nonce) = Number(given.nonce)
                      /\ kept.deadline = Number(given.deadline)
            /\ sent.permit2_permit.signature = Val(signOutcome.authorization).signature
            /\ sent.permit2_permit.nonce = Val(signOutcome.authorization).nonce
            /\ sent.permit2_permit.signature # Val(flowIntent.authorizations).signature

\* An intent with a legacy permit whose nonce is the bigint 12 and whose
\* deadline is the string '9500' was signed and submitted.
C25_Witness ==
    /\ IsSet(submitted)
    /\ IsSet(flowIntent.initial_permit)
    /\ Val(flowIntent.initial_permit).nonce = JsBigInt(12)
    /\ Val(submitted).initial_permit =
          Some([signature |-> "0xlegacy-signature", nonce |-> <<1, 2>>, deadline |-> 9500])
    /\ Val(submitted).permit2_permit.signature # <<>>

\* An intent without a legacy permit was signed and submitted.
C25_WitnessNone ==
    /\ IsSet(submitted)
    /\ ~IsSet(flowIntent.initial_permit)
    /\ ~IsSet(Val(submitted).initial_permit)

\* C28: in every body that signAndInitiatePaymentIntent submits,
\* processing_date equals the processing_date of the witness that was signed
\* and expiration_date equals its expires_at.
C28_SubmittedDatesMatchWitness ==
    IsSet(submitted) =>
        /\ Val(submitted).processing_date = Val(flowPayload).values.witness.processing_date
        /\ Val(submitted).expiration_date = Val(flowPayload).values.witness.expires_at

\* C28, the part that holds: dates the intent sets to non-zero values are
\* submitted as they were signed.
C28_SuppliedDatesMatchWitness ==
    IsSet(submitted) =>
        /\ (IsSet(flowIntent.processing_date) /\ Val(flowIntent.processing_date) # 0) =>
              Val(submitted).processing_date =
                  Val(flowPayload).values.witness.processing_date
        /\ (IsSet(flowIntent.expiration_date) /\ Val(flowIntent.expiration_date) # 0) =>
              Val(submitted).expiration_date = Val(flowPayload).values.witness.expires_at

\* C27: the nonce that generateTokenPermit returns is the nonce inside the
\* payload it signed.
C27_ReturnedNonceIsSignedNonce ==
    permitResult.kind = "permit" =>
        /\ Val(permitResult.permit).signature =
              SignPermit(permitSigner.key, Val(permitResult.payload))
        /\ Val(permitResult.permit).nonce =
              NumberToString(Val(permitResult.payload).values.nonce)

\* C27, the part that holds: the two are equal whenever the ledger nonce did
\* not change between the two reads.
C27_ReturnedNonceIsLastRead ==
    permitResult.kind = "permit" =>
        Val(permitResult.permit).nonce = NumberToString(Val(permitLocals.nonce))

====
